---- MODULE Spec2Model ----
(***************************************************************************)
(* The essay pipeline of keanukf/academic-essay-generator: the stage graph *)
(* of src/graph/workflow.py, the six stage functions of src/agents, the    *)
(* driving loop and the top-level driver of main.py, and the checkpoint    *)
(* writer of src/utils/checkpoint.py.                                      *)
(*                                                                         *)
(* Conventions.  A Python dict is a function over its keys (EmptyMap is    *)
(* {}), a list is a sequence, None is <<>> and a present optional value v  *)
(* is <<v>>.  Scores and thresholds are counted in tenths (7 is 0.7).      *)
(* A text that the code builds by concatenation (final_essay, an           *)
(* intermediate essay) is the sequence of its non-empty pieces, so the     *)
(* empty string is <<>>.                                                   *)
(***************************************************************************)
EXTENDS Integers, Sequences, FiniteSets, TLC

VARIABLES
    review_threshold,      \* create_workflow argument, fixed for the run
    max_revision_cycles,   \* create_workflow argument, fixed for the run
    state,                 \* the EssayState the graph threads through its nodes
    next_node,             \* the node the graph runs next ("END" when finished)
    emitted,               \* node names of the events the stream has yielded
    pc,                    \* the driver: "streaming", "exit_ok", "exit_error", "exit_interrupted"
    rw_final_state_dict,   \* _run_workflow's local final_state_dict
    rw_last_state_dict,    \* _run_workflow's local last_state_dict
    main_final_state_dict, \* main's local final_state_dict
    main_last_state_dict,  \* main's local last_state_dict
    checkpointed_nodes,    \* _run_workflow's local set of checkpoint keys
    files,                 \* the checkpoint directory: file name -> content
    write_log,             \* the file names written, in order
    output_file,           \* the output path: None or <<final_essay>>
    io_failures,           \* failed writes to the checkpoint directory so far
    last_call,             \* the last stage call: input, outcome and gateway calls
    clock,                 \* the time datetime.now() returns, in ticks
    save_calls,            \* the calls of save_checkpoint so far: step name and state
    loaded,                \* None, or the file load_checkpoint read and what it returned
    gw,                    \* the gateway call in progress: attempts, waits, result
    tracker,               \* the tracker of the run: "none", "disabled" or "enabled"
    workflow,              \* a workflow object given by the events its stream yields
    invoke_calls,          \* the calls of workflow.invoke so far
    runs,                  \* the concurrent runs: each run's own locals
    disk,                  \* the file system of the concurrent runs: path -> content
    chunker                \* chunk_text: its arguments, locals and position

vars == <<review_threshold, max_revision_cycles, state, next_node, emitted, pc,
          rw_final_state_dict, rw_last_state_dict, main_final_state_dict,
          main_last_state_dict, checkpointed_nodes, files, write_log,
          output_file, io_failures, last_call, clock, save_calls, loaded, gw,
          tracker, workflow, invoke_calls, runs, disk, chunker>>

(***************************************************************************)
(* Bounds of the model.                                                    *)
(***************************************************************************)
MaxCycles == 2      \* max_revision_cycles is drawn from 0..MaxCycles
MaxChunks == 1      \* at most this many literature chunks
MaxIoFailures == 1  \* at most this many writes to the checkpoint directory fail
MaxSections == 2    \* at most this many sections in an outline
MaxSaves == 3       \* at most this many save_checkpoint calls on one directory

(***************************************************************************)
(* Python values.                                                          *)
(***************************************************************************)
EmptyMap == [k \in {} |-> 0]
None == <<>>
Some(v) == <<v>>

Get(d, k, default) == IF k \in DOMAIN d THEN d[k] ELSE default

\* any(d.values()) for a dict whose values are lists
AnyValue(d) == \E k \in DOMAIN d : d[k] # <<>>

\* the pieces of a text: the empty string contributes nothing
TextOf(t) == IF t = "" THEN <<>> ELSE <<t>>

\* the scores and thresholds of the model, in tenths: below 0.0, the default
\* 0.0, around the default threshold 0.7, 1.0 and above 1.0
Scores == {0 - 1, 0, 5, 7, 8, 10, 12}

EssayState ==
    [topic |-> "", criteria |-> "", literature_chunks |-> <<>>,
     research_notes |-> EmptyMap, outline |-> EmptyMap, sections |-> EmptyMap,
     citations |-> <<>>, review_feedback |-> <<>>, final_essay |-> <<>>,
     revision_count |-> 0, review_score |-> 0]

\* state.model_copy(update=updates)
model_copy(s, updates) ==
    [f \in DOMAIN s |-> IF f \in DOMAIN updates THEN updates[f] ELSE s[f]]

(***************************************************************************)
(* The inference gateway, by its outcomes.  generate returns a text or     *)
(* raises ConnectionError; generate_structured returns the parsed mapping, *)
(* raises ConnectionError, or raises ValueError on an unparseable text.    *)
(***************************************************************************)
TextOutcomes(texts) ==
    {[kind |-> "conn_error", value |-> ""]}
        \cup {[kind |-> "text", value |-> t] : t \in texts}

StructuredOutcomes(values) ==
    {[kind |-> "conn_error", value |-> EmptyMap],
     [kind |-> "parse_error", value |-> EmptyMap]}
        \cup {[kind |-> "json", value |-> v] : v \in values}

\* the outcomes to choose from for one gateway call of a stage: those of the
\* gateway if the stage makes the call, and a single placeholder if the stage
\* returns before it
NoAnswer == [kind |-> "conn_error", value |-> EmptyMap]
OutcomesIf(called, outcomes) == IF called THEN outcomes ELSE {NoAnswer}

(***************************************************************************)
(* One call of the gateway (src/utils/ollama_client.py), step by step.     *)
(* A response text is given by whether it is wrapped in a code fence,      *)
(* whether what is left after stripping the fence parses as JSON, and the  *)
(* value it then parses to (for generate: the text itself).                *)
(***************************************************************************)
max_retries == 3     \* _retry_with_backoff's default max_retries
initial_delay == 1   \* _retry_with_backoff's default initial_delay, in seconds

NoText == [fenced |-> FALSE, valid |-> FALSE, body |-> EmptyMap]

\* no gateway call in progress
GwIdle ==
    [pc |-> "idle", structured |-> FALSE, attempt |-> 0, delay |-> 0,
     sleeps |-> <<>>, attempts |-> <<>>, generate_calls |-> 0, text |-> NoText,
     result |-> NoAnswer]

\* generate is entered (from generate_structured if structured): the
\* connection check, then the first pass of the retry loop is due
generate_start(g, structured, connected) ==
    IF ~connected
    THEN [g EXCEPT !.pc = "done", !.structured = structured,
                   !.generate_calls = @ + 1, !.result = NoAnswer]
    ELSE [g EXCEPT !.pc = "request", !.structured = structured,
                   !.generate_calls = @ + 1, !.attempt = 0,
                   !.delay = initial_delay]

\* a pass of the retry loop that gives up one attempt later
M_retry_attempt_OneMore(g, outcome, text) ==
    IF outcome = "ok"
    THEN [g EXCEPT !.attempts = Append(@, outcome), !.text = text,
                   !.pc = IF g.structured THEN "parse" ELSE "done",
                   !.result = IF g.structured THEN @
                              ELSE [kind |-> "text", value |-> text.body]]
    ELSE IF g.attempt < max_retries
         THEN [g EXCEPT !.attempts = Append(@, outcome),
                        !.sleeps = Append(@, g.delay), !.delay = @ * 2,
                        !.attempt = @ + 1]
         ELSE [g EXCEPT !.attempts = Append(@, outcome), !.pc = "done",
                        !.result = NoAnswer]

\* one pass of the loop of _retry_with_backoff around _make_request, and
\* what generate does with its end: a response ends the loop; a
\* RequestException is followed by a wait and another pass unless this was
\* the last pass, after which generate raises ConnectionError
retry_attempt(g, outcome, text) ==
    IF outcome = "ok"
    THEN [g EXCEPT !.attempts = Append(@, outcome), !.text = text,
                   !.pc = IF g.structured THEN "parse" ELSE "done",
                   !.result = IF g.structured THEN @
                              ELSE [kind |-> "text", value |-> text.body]]
    ELSE IF g.attempt < max_retries - 1
         THEN [g EXCEPT !.attempts = Append(@, outcome),
                        !.sleeps = Append(@, g.delay), !.delay = @ * 2,
                        !.attempt = @ + 1]
         ELSE [g EXCEPT !.attempts = Append(@, outcome), !.pc = "done",
                        !.result = NoAnswer]

\* generate_structured that asks again after an unparseable response
M_parse_response_AsksAgain(g) ==
    IF g.text.valid
    THEN [g EXCEPT !.pc = "done", !.result = [kind |-> "json", value |-> g.text.body]]
    ELSE IF g.generate_calls < 2
         THEN [g EXCEPT !.pc = "request", !.generate_calls = @ + 1, !.attempt = 0,
                        !.delay = initial_delay]
         ELSE [g EXCEPT !.pc = "done",
                        !.result = [kind |-> "parse_error", value |-> EmptyMap]]

\* generate_structured after generate has returned: the fence is stripped
\* and json.loads gives the mapping or fails, which raises ValueError
parse_response(g) ==
    IF g.text.valid
    THEN [g EXCEPT !.pc = "done", !.result = [kind |-> "json", value |-> g.text.body]]
    ELSE [g EXCEPT !.pc = "done",
                   !.result = [kind |-> "parse_error", value |-> EmptyMap]]

(***************************************************************************)
(* What a stage call does: it returns a patch (Returned), returns a patch   *)
(* from its except block after an exception inside its try block (Caught), *)
(* or raises (Raised); calls counts the gateway calls it made.             *)
(***************************************************************************)
Returned(patch, calls) ==
    [raised |-> FALSE, caught |-> FALSE, patch |-> patch, calls |-> calls]
Caught(patch, calls) ==
    [raised |-> FALSE, caught |-> TRUE, patch |-> patch, calls |-> calls]
Raised(calls) ==
    [raised |-> TRUE, caught |-> FALSE, patch |-> EmptyMap, calls |-> calls]

\* a workflow object that is not used: the graph itself yields the events
NoWorkflow == [stream |-> <<>>, invoke |-> EssayState]

\* chunk_text has not been called
ChunkerIdle ==
    [pc |-> "idle", text_length |-> 0, periods |-> {}, chunk_size |-> 0,
     chunk_overlap |-> 0, current_pos |-> 0, chunks |-> <<>>]

(***************************************************************************)
(* The tracker (src/utils/tracking).  main passes to create_workflow and   *)
(* to the gateway what _initialize_tracker returned: None ("none"), or a   *)
(* LangfuseTracker that is disabled (no credentials, or a client that      *)
(* could not be built) or enabled.                                         *)
(***************************************************************************)
TrackerModes == {"none", "disabled", "enabled"}

\* LangfuseTracker.is_enabled
is_enabled(tr) == tr = "enabled"

\* a tracker that offers span_context
M_has_span_context_Offered(tr) == TRUE

\* hasattr(tracker, 'span_context'): neither BaseTracker nor LangfuseTracker
\* defines the attribute
has_span_context(tr) == FALSE

\* track_llm_call may fail inside; its own except block prints a warning
TrackingOutcomes(tr) ==
    IF tr # "none" /\ is_enabled(tr) THEN {"ok", "fails"} ELSE {"ok"}

\* a generate whose caller sees a failure of the tracker
M_generate_returns_TrackingFailureRaises(tr, r, tracking) ==
    IF tr # "none" /\ is_enabled(tr) /\ tracking = "fails"
    THEN [kind |-> "conn_error", value |-> EmptyMap]
    ELSE r

\* what generate hands to its caller once the call has been reported to the
\* tracker: the text, or the ConnectionError, it had before; track_llm_call
\* returns None whether or not it failed inside
generate_returns(tr, r, tracking) == r

\* the ways the span of a node may go: it is opened only by an enabled
\* tracker that offers span_context
SpanOutcomes(tr) ==
    IF tr # "none" /\ is_enabled(tr) /\ has_span_context(tr)
    THEN {"ok", "raises"}
    ELSE {"ok"}

\* tracked_node: the stage function is run inside the tracker's span if the
\* tracker offers one, and on its own otherwise; an exception of the span is
\* raised again
tracked_node(tr, res, span) ==
    IF tr # "none" /\ is_enabled(tr) /\ has_span_context(tr) /\ span = "raises"
    THEN Raised(res.calls)
    ELSE res

(***************************************************************************)
(* The stage functions (src/agents).  Each takes the state and the         *)
(* outcomes of the gateway calls it may make.                              *)
(***************************************************************************)

\* research_agent without its check for missing literature chunks
M_research_agent_NoPrecondition(s, r) ==
    IF r.kind # "json"
    THEN Caught("research_notes" :> EmptyMap, 1)
    ELSE Returned("research_notes" :> r.value, 1)

\* research_agent that also fills final_essay
M_research_agent_WritesEssay(s, r) ==
    IF s.literature_chunks = <<>>
    THEN Returned("research_notes" :> EmptyMap @@ "final_essay" :> <<"notes">>, 0)
    ELSE IF r.kind # "json"
         THEN Caught("research_notes" :> EmptyMap, 1)
         ELSE Returned("research_notes" :> r.value @@ "final_essay" :> <<"notes">>, 1)

\* research_agent: one structured call over the literature chunks
research_agent(s, r) ==
    IF s.literature_chunks = <<>>
    THEN Returned("research_notes" :> EmptyMap, 0)
    ELSE IF r.kind # "json"
         THEN Caught("research_notes" :> EmptyMap, 1)
         ELSE Returned("research_notes" :> r.value, 1)

\* outline_agent: the precondition, the read of state.target_length (a field
\* EssayState does not declare, read before the try block), then phase 1
\* (r1) and, with research notes, the refinement (r2)
outline_agent(s, r1, r2) ==
    IF s.topic = "" \/ s.criteria = ""
    THEN Returned("outline" :> EmptyMap, 0)
    ELSE IF "target_length" \notin DOMAIN s
         THEN Raised(0)
         ELSE IF r1.kind # "json"
              THEN Caught("outline" :> EmptyMap, 1)
              ELSE IF s.research_notes # EmptyMap /\ AnyValue(s.research_notes)
                   THEN IF r2.kind # "json"
                        THEN Caught("outline" :> EmptyMap, 2)
                        ELSE IF r2.value # EmptyMap
                                  /\ Get(r2.value, "sections", <<>>) # <<>>
                             THEN Returned("outline" :> r2.value, 2)
                             ELSE Returned("outline" :> r1.value, 2)
                   ELSE Returned("outline" :> r1.value, 1)

\* the for loop of writer_agent, giving up the sections when a call fails
RECURSIVE M_writer_loop_DropOnFailure(_, _, _, _, _, _)
M_writer_loop_DropOnFailure(infos, i, sections, revision_count, resps, calls) ==
    IF i > Len(infos)
    THEN [sections |-> sections, calls |-> calls, caught |-> FALSE]
    ELSE LET section_name == Get(infos[i], "name", "Untitled Section") IN
         IF section_name \in DOMAIN sections /\ revision_count = 0
         THEN M_writer_loop_DropOnFailure(infos, i + 1, sections, revision_count,
                                          resps, calls)
         ELSE IF resps[calls + 1].kind # "text"
              THEN [sections |-> EmptyMap, calls |-> calls + 1, caught |-> TRUE]
              ELSE M_writer_loop_DropOnFailure(infos, i + 1,
                               (section_name :> resps[calls + 1].value) @@ sections,
                               revision_count, resps, calls + 1)

\* the for loop of writer_agent, skipping a written section on every pass
RECURSIVE M_writer_loop_NeverRewrite(_, _, _, _, _, _)
M_writer_loop_NeverRewrite(infos, i, sections, revision_count, resps, calls) ==
    IF i > Len(infos)
    THEN [sections |-> sections, calls |-> calls, caught |-> FALSE]
    ELSE LET section_name == Get(infos[i], "name", "Untitled Section") IN
         IF section_name \in DOMAIN sections
         THEN M_writer_loop_NeverRewrite(infos, i + 1, sections, revision_count,
                                         resps, calls)
         ELSE IF resps[calls + 1].kind # "text"
              THEN [sections |-> sections, calls |-> calls + 1, caught |-> TRUE]
              ELSE M_writer_loop_NeverRewrite(infos, i + 1,
                               (section_name :> resps[calls + 1].value) @@ sections,
                               revision_count, resps, calls + 1)

\* the for loop of writer_agent from outline section i on: a section already
\* written is skipped on the first pass; a failed call ends the loop with the
\* sections written so far
RECURSIVE writer_loop(_, _, _, _, _, _)
writer_loop(infos, i, sections, revision_count, resps, calls) ==
    IF i > Len(infos)
    THEN [sections |-> sections, calls |-> calls, caught |-> FALSE]
    ELSE LET section_name == Get(infos[i], "name", "Untitled Section") IN
         IF section_name \in DOMAIN sections /\ revision_count = 0
         THEN writer_loop(infos, i + 1, sections, revision_count, resps, calls)
         ELSE IF resps[calls + 1].kind # "text"
              THEN [sections |-> sections, calls |-> calls + 1, caught |-> TRUE]
              ELSE writer_loop(infos, i + 1,
                               (section_name :> resps[calls + 1].value) @@ sections,
                               revision_count, resps, calls + 1)

\* writer_agent that treats an empty sections list like a missing outline
M_writer_agent_EmptyListIsMissing(s, resps) ==
    IF s.outline = EmptyMap \/ Get(s.outline, "sections", <<>>) = <<>>
    THEN Returned("sections" :> EmptyMap, 0)
    ELSE LET w == writer_loop(s.outline.sections, 1, s.sections,
                              s.revision_count, resps, 0)
         IN  IF w.caught
             THEN Caught("sections" :> w.sections, w.calls)
             ELSE Returned("sections" :> w.sections, w.calls)

\* writer_agent that starts every pass from an empty sections dict
M_writer_agent_StartsEmpty(s, resps) ==
    IF s.outline = EmptyMap \/ "sections" \notin DOMAIN s.outline
    THEN Returned("sections" :> EmptyMap, 0)
    ELSE LET w == writer_loop(s.outline.sections, 1, EmptyMap,
                              s.revision_count, resps, 0)
         IN  IF w.caught
             THEN Caught("sections" :> w.sections, w.calls)
             ELSE Returned("sections" :> w.sections, w.calls)

\* writer_agent that writes every section under one key
M_writer_agent_OneKey(s, resps) ==
    IF s.outline = EmptyMap \/ "sections" \notin DOMAIN s.outline
    THEN Returned("sections" :> EmptyMap, 0)
    ELSE LET w == writer_loop([i \in 1..Len(s.outline.sections) |-> [title |-> "x"]],
                              1, s.sections, s.revision_count, resps, 0)
         IN  IF w.caught
             THEN Caught("sections" :> w.sections, w.calls)
             ELSE Returned("sections" :> w.sections, w.calls)

\* writer_agent that stops after the first outline section
M_writer_agent_FirstSectionOnly(s, resps) ==
    IF s.outline = EmptyMap \/ "sections" \notin DOMAIN s.outline
    THEN Returned("sections" :> EmptyMap, 0)
    ELSE LET w == writer_loop(IF s.outline.sections = <<>> THEN <<>>
                              ELSE <<s.outline.sections[1]>>,
                              1, s.sections, s.revision_count, resps, 0)
         IN  IF w.caught
             THEN Caught("sections" :> w.sections, w.calls)
             ELSE Returned("sections" :> w.sections, w.calls)

\* writer_agent: resps[k] is the outcome of the k-th generate call
writer_agent(s, resps) ==
    IF s.outline = EmptyMap \/ "sections" \notin DOMAIN s.outline
    THEN Returned("sections" :> EmptyMap, 0)
    ELSE LET w == writer_loop(s.outline.sections, 1, s.sections,
                              s.revision_count, resps, 0)
         IN  IF w.caught
             THEN Caught("sections" :> w.sections, w.calls)
             ELSE Returned("sections" :> w.sections, w.calls)

\* {"type": "bibliography", **bib}: the keys of bib win
TagBibliography(bib) == bib @@ ("type" :> "bibliography")

\* citation_agent: one structured call; in-text citations, then the tagged
\* bibliography entries
citation_agent(s, r) ==
    IF s.sections = EmptyMap
    THEN Returned("citations" :> <<>>, 0)
    ELSE IF r.kind # "json"
         THEN Caught("citations" :> <<>>, 1)
         ELSE LET citations == Get(r.value, "citations", <<>>)
                  bibliography == Get(r.value, "bibliography", <<>>)
              IN  Returned("citations" :>
                             (citations \o [i \in 1..Len(bibliography) |->
                                              TagBibliography(bibliography[i])]),
                           1)

\* f"  - {x}" for every x of a list
Bullets(xs) == [i \in 1..Len(xs) |-> <<"  - ", xs[i]>>]

\* a heading and the bulleted items, or nothing for an empty list
FeedbackBlock(heading, xs) ==
    IF xs = <<>> THEN <<>> ELSE <<heading>> \o Bullets(xs)

\* review_agent that gives an essay without sections the full score
M_review_agent_EmptyPasses(s, r) ==
    IF s.sections = EmptyMap
    THEN Returned("review_feedback" :> <<>> @@ "review_score" :> 10, 0)
    ELSE IF r.kind # "json"
         THEN Caught("review_feedback" :> <<>> @@ "review_score" :> 0, 1)
         ELSE Returned("review_feedback" :> <<>>
                       @@ "review_score" :> Get(r.value, "score", 0), 1)

\* review_agent: one structured call; strengths, weaknesses, then feedback;
\* the score is passed on as it came
review_agent(s, r) ==
    IF s.sections = EmptyMap
    THEN Returned("review_feedback" :> <<>> @@ "review_score" :> 0, 0)
    ELSE IF r.kind # "json"
         THEN Caught("review_feedback" :> <<>> @@ "review_score" :> 0, 1)
         ELSE Returned("review_feedback" :>
                          (FeedbackBlock("Strengths:", Get(r.value, "strengths", <<>>))
                           \o FeedbackBlock("Weaknesses:", Get(r.value, "weaknesses", <<>>))
                           \o FeedbackBlock("General Feedback:", Get(r.value, "feedback", <<>>)))
                       @@ "review_score" :> Get(r.value, "score", 0),
                       1)

\* the bibliography-tagged citations, in order
RECURSIVE BibliographyOf(_)
BibliographyOf(cs) ==
    IF cs = <<>> THEN <<>>
    ELSE (IF Get(Head(cs), "type", "") = "bibliography" THEN <<Head(cs)>> ELSE <<>>)
         \o BibliographyOf(Tail(cs))

\* f"{author} ({year}). {title}. {publisher}\n\n"
ReferenceEntry(bib) ==
    [author |-> Get(bib, "author", "Unknown"), year |-> Get(bib, "year", "n.d."),
     title |-> Get(bib, "title", "Untitled"), publisher |-> Get(bib, "publisher", "")]

\* a references block with an entry for every citation, in-text ones included
M_ReferencesBlock_AllCitations(cs) ==
    IF cs = <<>> THEN <<>>
    ELSE <<"## References">> \o [i \in 1..Len(cs) |-> ReferenceEntry(cs[i])]

\* the block editor_agent appends: nothing without a bibliography entry
ReferencesBlock(cs) ==
    LET bibliography == BibliographyOf(cs) IN
    IF bibliography = <<>> THEN <<>>
    ELSE <<"## References">>
         \o [i \in 1..Len(bibliography) |-> ReferenceEntry(bibliography[i])]

\* editor_agent: one generate call, then the references block
editor_agent(s, r) ==
    IF s.sections = EmptyMap
    THEN Returned("final_essay" :> <<>>, 0)
    ELSE IF r.kind # "text"
         THEN Caught("final_essay" :> <<>>, 1)
         ELSE Returned("final_essay" :> (TextOf(r.value) \o ReferencesBlock(s.citations)), 1)

(***************************************************************************)
(* The revision controller (create_workflow).                              *)
(***************************************************************************)
\* increment_revision_node that counts a revision twice
M_increment_revision_node_ByTwo(s) ==
    model_copy(s, "revision_count" :> (s.revision_count + 2))

\* increment_revision_node: the State with revision_count raised by one
increment_revision_node(s) ==
    model_copy(s, "revision_count" :> (s.revision_count + 1))

\* should_revise with the cycle test off by one
M_should_revise_OffByOne(s) ==
    IF s.review_score < review_threshold /\ s.revision_count <= max_revision_cycles
    THEN "revise"
    ELSE "finalize"

\* should_revise that also revises a score equal to the threshold
M_should_revise_ScoreInclusive(s) ==
    IF s.review_score <= review_threshold /\ s.revision_count < max_revision_cycles
    THEN "revise"
    ELSE "finalize"

\* should_revise without the cycle cap
M_should_revise_NoCap(s) ==
    IF s.review_score < review_threshold THEN "revise" ELSE "finalize"

should_revise(s) ==
    IF s.review_score < review_threshold /\ s.revision_count < max_revision_cycles
    THEN "revise"
    ELSE "finalize"

\* the edges of the graph with the increment step leading to citation
M_Successor_IncrementToCitation(node_name, s) ==
    CASE node_name = "research" -> "outline"
      [] node_name = "outline" -> "writer"
      [] node_name = "writer" -> "citation"
      [] node_name = "citation" -> "review"
      [] node_name = "review" ->
           IF s.review_score < review_threshold
                  /\ s.revision_count < max_revision_cycles
           THEN "increment_revision" ELSE "editor"
      [] node_name = "increment_revision" -> "citation"
      [] node_name = "editor" -> "END"

\* the edges of the graph with an edge from writer straight to review
M_Successor_SkipCitation(node_name, s) ==
    CASE node_name = "research" -> "outline"
      [] node_name = "outline" -> "writer"
      [] node_name = "writer" -> "review"
      [] node_name = "citation" -> "review"
      [] node_name = "review" ->
           IF s.review_score < review_threshold
                  /\ s.revision_count < max_revision_cycles
           THEN "increment_revision" ELSE "editor"
      [] node_name = "increment_revision" -> "writer"
      [] node_name = "editor" -> "END"

\* the edges of the graph with the finalize route leading straight to END
M_Successor_SkipEditor(node_name, s) ==
    CASE node_name = "research" -> "outline"
      [] node_name = "outline" -> "writer"
      [] node_name = "writer" -> "citation"
      [] node_name = "citation" -> "review"
      [] node_name = "review" ->
           IF s.review_score < review_threshold
                  /\ s.revision_count < max_revision_cycles
           THEN "increment_revision" ELSE "END"
      [] node_name = "increment_revision" -> "writer"
      [] node_name = "editor" -> "END"

\* the edges of the graph: the node that runs after node_name has returned s
Successor(node_name, s) ==
    CASE node_name = "research" -> "outline"
      [] node_name = "outline" -> "writer"
      [] node_name = "writer" -> "citation"
      [] node_name = "citation" -> "review"
      [] node_name = "review" ->
           IF should_revise(s) = "revise" THEN "increment_revision" ELSE "editor"
      [] node_name = "increment_revision" -> "writer"
      [] node_name = "editor" -> "END"

(***************************************************************************)
(* The checkpoint store (src/utils/checkpoint.py).  A file is named by its *)
(* kind, the step name and the revision count; a write replaces the file.  *)
(***************************************************************************)
\* a checkpoint file named by the step alone
M_CheckpointFile_NoRevision(s, step_name) == <<"checkpoint", step_name, 0>>

CheckpointFile(s, step_name) == <<"checkpoint", step_name, s.revision_count>>
EssayFile(s, step_name) == <<"essay", step_name, s.revision_count>>

\* state.model_dump(): the fields of the State as a dict
model_dump(s) == [f \in DOMAIN s |-> s[f]]

\* checkpoint_data; now is the time datetime.now() returned
CheckpointData(s, step_name, now) ==
    [step |-> step_name, timestamp |-> <<"iso", now>>,
     revision_count |-> s.revision_count, review_score |-> s.review_score,
     state |-> model_dump(s)]

\* the keys of checkpoint_data and the fields of EssayState, in the order
\* json.dump writes them
CheckpointKeys == <<"step", "timestamp", "revision_count", "review_score", "state">>
StateFields ==
    <<"topic", "criteria", "literature_chunks", "research_notes", "outline",
      "sections", "citations", "review_feedback", "final_essay",
      "revision_count", "review_score">>

\* a dict written as a JSON object: its members, key then value, in order
JsonObject(d, keys) == [i \in 1..Len(keys) |-> <<keys[i], d[keys[i]]>>]

\* json.dump(checkpoint_data, f): the document written to the file
json_dump(data) ==
    JsonObject([data EXCEPT !.state = JsonObject(data.state, StateFields)],
               CheckpointKeys)

\* a JSON object read back as a dict: the last member of a key gives its value
ParseObject(members) ==
    [k \in {members[i][1] : i \in DOMAIN members} |->
        members[CHOOSE i \in DOMAIN members :
                    /\ members[i][1] = k
                    /\ \A j \in DOMAIN members : members[j][1] = k => j <= i][2]]

\* json.load(f) on a checkpoint document
json_load(doc) ==
    LET top == ParseObject(doc) IN [top EXCEPT !.state = ParseObject(top.state)]

\* save_checkpoint that keeps a file that is already there
M_save_checkpoint_KeepExisting(fs, s, step_name, now) ==
    fs @@ (CheckpointFile(s, step_name) :> json_dump(CheckpointData(s, step_name, now)))

\* save_checkpoint on the directory fs: open(checkpoint_file, "w") replaces
\* the file
save_checkpoint(fs, s, step_name, now) ==
    (CheckpointFile(s, step_name) :> json_dump(CheckpointData(s, step_name, now))) @@ fs

\* load_checkpoint that reads some file of the directory, whatever the path
M_load_checkpoint_AnyFile(fs, checkpoint_file) ==
    json_load(fs[CHOOSE f \in DOMAIN fs : TRUE])

\* load_checkpoint on a file of the directory fs
load_checkpoint(fs, checkpoint_file) == json_load(fs[checkpoint_file])

\* the heading of every outline section, written or not
M_SectionParts_EverySection(infos, sections) ==
    [k \in 1..(2 * Len(infos)) |->
        IF k % 2 = 1
        THEN <<"## ", Get(infos[(k + 1) \div 2], "name", "")>>
        ELSE Get(sections, Get(infos[k \div 2], "name", ""), "")]

\* the heading and content of every outline section that has been written
RECURSIVE SectionParts(_, _)
SectionParts(infos, sections) ==
    IF infos = <<>> THEN <<>>
    ELSE (IF Get(Head(infos), "name", "") \in DOMAIN sections
          THEN << <<"## ", Get(Head(infos), "name", "")>>,
                  sections[Get(Head(infos), "name", "")] >>
          ELSE <<>>)
         \o SectionParts(Tail(infos), sections)

\* essay_parts of save_intermediate_essay
EssayParts(s) ==
    (IF s.topic # "" THEN << <<"# ", s.topic>> >> ELSE <<>>)
    \o (IF s.outline # EmptyMap /\ "sections" \in DOMAIN s.outline
        THEN SectionParts(s.outline.sections, s.sections)
        ELSE <<>>)
    \o (IF s.citations # <<>>
        THEN <<"## References">>
             \o [i \in 1..Len(s.citations) |->
                   [author |-> Get(s.citations[i], "author", "Unknown"),
                    year |-> Get(s.citations[i], "year", "n.d."),
                    title |-> Get(s.citations[i], "title", "")]]
        ELSE <<>>)

\* save_intermediate_essay on the directory fs: nothing without sections
save_intermediate_essay(fs, s, step_name) ==
    IF s.sections = EmptyMap THEN fs
    ELSE (EssayFile(s, step_name) :> EssayParts(s)) @@ fs

(***************************************************************************)
(* The driving loop (_run_workflow) and the driver (main).  A write to the *)
(* checkpoint directory succeeds ("ok") or raises: in save_checkpoint      *)
(* ("fail_checkpoint") or in save_intermediate_essay ("fail_essay").       *)
(***************************************************************************)
IoOutcomes == {"ok", "fail_checkpoint", "fail_essay"}

\* the nodes the loop checkpoints, without citation
M_CheckpointNodes_NoCitation == {"outline", "writer", "review"}

\* the nodes after which the loop saves a checkpoint
CheckpointNodes == {"outline", "writer", "citation", "review"}
EssayNodes == {"writer", "citation", "review"}

\* the outcomes a write may have now: a node the loop never checkpoints
\* writes nothing, and the failures of a run are bounded
IoFor(node_name) ==
    IF node_name \in CheckpointNodes \cup {"interrupted"}
            /\ io_failures < MaxIoFailures
    THEN IoOutcomes
    ELSE {"ok"}

\* the body of the loop over the stream's events, for the event (node_name, s):
\* the directory, the log of writes and checkpointed_nodes after it
LoopBody(node_name, s, io) ==
    LET checkpoint_key == <<node_name, s.revision_count>>
        saving == node_name \in CheckpointNodes /\ checkpoint_key \notin checkpointed_nodes
        essay == node_name \in EssayNodes /\ s.sections # EmptyMap
        called == Append(save_calls, [step |-> node_name, state |-> s, now |-> clock])
    IN  IF ~saving
        THEN [files |-> files, write_log |-> write_log,
              checkpointed_nodes |-> checkpointed_nodes, failed |-> FALSE,
              save_calls |-> save_calls, clock |-> clock]
        ELSE IF io = "fail_checkpoint"
        THEN [files |-> files, write_log |-> write_log,
              checkpointed_nodes |-> checkpointed_nodes, failed |-> TRUE,
              save_calls |-> called, clock |-> clock + 1]
        ELSE IF essay /\ io = "fail_essay"
             THEN [files |-> save_checkpoint(files, s, node_name, clock),
                   write_log |-> Append(write_log, CheckpointFile(s, node_name)),
                   checkpointed_nodes |-> checkpointed_nodes, failed |-> TRUE,
                   save_calls |-> called, clock |-> clock + 1]
             ELSE [files |-> save_intermediate_essay(
                                 save_checkpoint(files, s, node_name, clock),
                                 s, node_name),
                   write_log |-> write_log \o <<CheckpointFile(s, node_name)>>
                                 \o (IF essay THEN <<EssayFile(s, node_name)>> ELSE <<>>),
                   checkpointed_nodes |-> checkpointed_nodes \cup {checkpoint_key},
                   failed |-> FALSE,
                   save_calls |-> called, clock |-> clock + 1]

\* the except blocks of main: the recovery save is attempted only if main's
\* own last_state_dict is set
RecoverySave(step_name, io) ==
    IF main_last_state_dict = None
    THEN [files |-> files, write_log |-> write_log, failed |-> FALSE,
          save_calls |-> save_calls, clock |-> clock]
    ELSE LET last_state == main_last_state_dict[1]
             called == Append(save_calls,
                               [step |-> step_name, state |-> last_state,
                                now |-> clock])
         IN
         IF io = "fail_checkpoint"
         THEN [files |-> files, write_log |-> write_log, failed |-> TRUE,
               save_calls |-> called, clock |-> clock + 1]
         ELSE IF io = "fail_essay" /\ last_state.sections # EmptyMap
         THEN [files |-> save_checkpoint(files, last_state, step_name, clock),
               write_log |-> Append(write_log, CheckpointFile(last_state, step_name)),
               failed |-> TRUE,
               save_calls |-> called, clock |-> clock + 1]
         ELSE [files |-> save_intermediate_essay(
                             save_checkpoint(files, last_state, step_name, clock),
                             last_state, step_name),
               write_log |-> write_log \o <<CheckpointFile(last_state, step_name)>>
                             \o (IF last_state.sections # EmptyMap
                                 THEN <<EssayFile(last_state, step_name)>> ELSE <<>>),
               failed |-> FALSE,
               save_calls |-> called, clock |-> clock + 1]

\* the State object a stage was called on, as it is once the stage has
\* written into a dict it shares with that State
M_InputAfter_WriterAliases(node_name, s, res) ==
    IF node_name = "writer" /\ "sections" \in DOMAIN res.patch
    THEN [s EXCEPT !.sections = res.patch.sections]
    ELSE s

\* the State object a stage was called on, as it is after the call: the
\* stages build their results in new lists and dicts (Write fills a copy of
\* state.sections), so the object holds what it held
InputAfter(node_name, s, res) == s

\* an end of _run_workflow that calls invoke whatever the stream yielded
M_RunWorkflowEnd_AlwaysInvokes(final_state_dict, invoke_result) ==
    [final_state_dict |-> invoke_result, invoke_calls |-> 1]

\* the end of _run_workflow, after the loop over the stream: invoke is
\* called if no event has set final_state_dict, and its result is then what
\* _run_workflow returns
RunWorkflowEnd(final_state_dict, invoke_result) ==
    IF final_state_dict = None
    THEN [final_state_dict |-> invoke_result, invoke_calls |-> 1]
    ELSE [final_state_dict |-> final_state_dict, invoke_calls |-> 0]

\* a loop that a failed write ends
M_LoopBodyEnds_FailureEndsRun(failed) ==
    IF failed THEN "exit_error" ELSE "streaming"

\* the driver after the body of the loop: the try/except around the two
\* saves catches a failed write and prints a warning, so the loop goes on to
\* the next event either way
LoopBodyEnds(failed) == "streaming"

\* main that writes no output file for an empty essay
M_MainOutput_SkipsEmptyEssay(how, final_state_dict) ==
    IF how = "returned" /\ final_state_dict # None
            /\ final_state_dict[1].final_essay # <<>>
    THEN Some(final_state_dict[1].final_essay)
    ELSE output_file

\* main that writes the essay of the last state however the run ended
M_MainOutput_WritesLastState(how, final_state_dict) ==
    IF rw_last_state_dict # None
    THEN Some(rw_last_state_dict[1].final_essay)
    ELSE output_file

\* the output file after main has dealt with the end of _run_workflow: it is
\* written only when _run_workflow returned a final state; both except
\* blocks leave main through typer.Exit(1) before that
MainOutput(how, final_state_dict) ==
    IF how = "returned" /\ final_state_dict # None
    THEN Some(final_state_dict[1].final_essay)
    ELSE output_file

\* the exit code of the process for the way main ended
ExitCode(ended) == IF ended = "exit_ok" THEN 0 ELSE 1

\* the record of a stage call: answers holds what the gateway answered to
\* the calls the stage made, in order
CallRecord(node_name, s, res, answers) ==
    [node |-> node_name, input |-> s, raised |-> res.raised, caught |-> res.caught,
     patch |-> res.patch, calls |-> res.calls,
     answers |-> [k \in 1..res.calls |-> answers[k]],
     input_after |-> InputAfter(node_name, s, res)]

NoCall == [node |-> "none", input |-> EssayState, raised |-> FALSE, caught |-> FALSE,
           patch |-> EmptyMap, calls |-> 0, answers |-> <<>>,
           input_after |-> EssayState]

\* one node of the graph runs on the current state with outcome res, and the
\* loop handles its event; an exception of the node leaves the stream, the
\* loop and _run_workflow and reaches main's except block
Step(node_name, res, answers, io) ==
    /\ pc = "streaming"
    /\ next_node = node_name
    /\ last_call' = CallRecord(node_name, state, res, answers)
    /\ IF res.raised
       THEN /\ pc' = "exit_error"
            /\ files' = RecoverySave("error", io).files
            /\ write_log' = RecoverySave("error", io).write_log
            /\ save_calls' = RecoverySave("error", io).save_calls
            /\ clock' = RecoverySave("error", io).clock
            /\ io_failures' = io_failures
                    + (IF RecoverySave("error", io).failed THEN 1 ELSE 0)
            /\ output_file' = MainOutput("exception", main_final_state_dict)
            /\ UNCHANGED <<state, next_node, emitted, rw_final_state_dict,
                           rw_last_state_dict, checkpointed_nodes>>
       ELSE /\ state' = model_copy(state, res.patch)
            /\ next_node' = Successor(node_name, state')
            /\ emitted' = Append(emitted, [node |-> node_name, state |-> state'])
            /\ files' = LoopBody(node_name, state', io).files
            /\ write_log' = LoopBody(node_name, state', io).write_log
            /\ checkpointed_nodes' = LoopBody(node_name, state', io).checkpointed_nodes
            /\ save_calls' = LoopBody(node_name, state', io).save_calls
            /\ clock' = LoopBody(node_name, state', io).clock
            /\ io_failures' = io_failures
                    + (IF LoopBody(node_name, state', io).failed THEN 1 ELSE 0)
            /\ rw_final_state_dict' = Some(state')
            /\ rw_last_state_dict' = Some(state')
            /\ pc' = LoopBodyEnds(LoopBody(node_name, state', io).failed)
            /\ output_file' = output_file
    /\ UNCHANGED <<review_threshold, max_revision_cycles, main_final_state_dict,
                   main_last_state_dict, loaded, gw, tracker,
                   workflow, invoke_calls, runs, disk, chunker>>

\* what the gateway may answer
NotesValues ==
    {EmptyMap,
     [arguments |-> <<>>, quotes |-> <<>>, themes |-> <<>>],
     [arguments |-> <<"a1">>, quotes |-> <<>>, themes |-> <<"t1">>]}
SectionNames == {"S1", "S2"}
SectionInfos == {[name |-> n, key_points |-> <<>>] : n \in SectionNames}
\* outline sections: named ones, or one that carries no name
SectionLists ==
    UNION {[1..n -> SectionInfos] : n \in 0..MaxSections}
        \cup {<<[key_points |-> <<>>]>>}
OutlineValues ==
    {EmptyMap, [title |-> "t"]}
        \cup {[title |-> "t", sections |-> l] : l \in SectionLists}
SectionTexts == {"", "text"}
InTextCitations == {[text |-> "(A, 2020)", section |-> "S1"]}
BibliographyEntries ==
    {[author |-> "A", year |-> "2020", title |-> "T1", publisher |-> "P"],
     [author |-> "B", type |-> "book"]}
CitationValues ==
    {EmptyMap}
        \cup {[citations |-> c, bibliography |-> b] :
                c \in {<<>>} \cup {<<x>> : x \in InTextCitations},
                b \in {<<>>} \cup {<<x>> : x \in BibliographyEntries}}
ReviewValues ==
    {EmptyMap}
        \cup {[score |-> sc, strengths |-> <<>>, weaknesses |-> <<>>, feedback |-> <<>>] :
                sc \in Scores}
        \cup {[score |-> sc, strengths |-> <<"s">>, feedback |-> <<"f1", "f2">>] :
                sc \in Scores}

\* the gateway outcomes a stage called on s chooses from
ResearchOutcomes(s) ==
    OutcomesIf(research_agent(s, NoAnswer).calls >= 1, StructuredOutcomes(NotesValues))
OutlineOutcomes1(s) ==
    OutcomesIf(outline_agent(s, NoAnswer, NoAnswer).calls >= 1,
               StructuredOutcomes(OutlineValues))
OutlineOutcomes2(s, r1) ==
    OutcomesIf(outline_agent(s, r1, NoAnswer).calls >= 2,
               StructuredOutcomes(OutlineValues))
\* one outcome for each call Write makes when every call succeeds
WriterOutcomes(s) ==
    [1..writer_agent(s, [k \in 1..MaxSections |-> [kind |-> "text", value |-> ""]]).calls
        -> TextOutcomes(SectionTexts)]
CitationOutcomes(s) ==
    OutcomesIf(citation_agent(s, NoAnswer).calls >= 1, StructuredOutcomes(CitationValues))
ReviewOutcomes(s) ==
    OutcomesIf(review_agent(s, NoAnswer).calls >= 1, StructuredOutcomes(ReviewValues))
EditorOutcomes(s) ==
    OutcomesIf(editor_agent(s, NoAnswer).calls >= 1, TextOutcomes(SectionTexts))

Research ==
    \E r \in ResearchOutcomes(state), tk \in TrackingOutcomes(tracker),
       span \in SpanOutcomes(tracker) :
        Step("research",
             tracked_node(tracker,
                          research_agent(state, generate_returns(tracker, r, tk)),
                          span),
             <<r>>, "ok")

Outline ==
    \E r1 \in OutlineOutcomes1(state), io \in IoFor("outline") :
        \E r2 \in OutlineOutcomes2(state, r1), tk \in TrackingOutcomes(tracker),
           span \in SpanOutcomes(tracker) :
            Step("outline",
                 tracked_node(tracker,
                              outline_agent(state, generate_returns(tracker, r1, tk),
                                            generate_returns(tracker, r2, tk)),
                              span),
                 <<r1, r2>>, io)

Writer ==
    \E resps \in WriterOutcomes(state), io \in IoFor("writer"),
       tk \in TrackingOutcomes(tracker), span \in SpanOutcomes(tracker) :
        Step("writer",
             tracked_node(tracker,
                          writer_agent(state,
                                       [k \in DOMAIN resps |->
                                          generate_returns(tracker, resps[k], tk)]),
                          span),
             resps, io)

Citation ==
    \E r \in CitationOutcomes(state), io \in IoFor("citation"),
       tk \in TrackingOutcomes(tracker), span \in SpanOutcomes(tracker) :
        Step("citation",
             tracked_node(tracker,
                          citation_agent(state, generate_returns(tracker, r, tk)),
                          span),
             <<r>>, io)

\* the review node and the conditional edge after it
Review ==
    \E r \in ReviewOutcomes(state), io \in IoFor("review"),
       tk \in TrackingOutcomes(tracker), span \in SpanOutcomes(tracker) :
        Step("review",
             tracked_node(tracker,
                          review_agent(state, generate_returns(tracker, r, tk)),
                          span),
             <<r>>, io)

IncrementRevision ==
    Step("increment_revision",
         Returned("revision_count" :> increment_revision_node(state).revision_count, 0),
         <<>>, "ok")

Editor ==
    \E r \in EditorOutcomes(state), tk \in TrackingOutcomes(tracker),
       span \in SpanOutcomes(tracker) :
        Step("editor",
             tracked_node(tracker,
                          editor_agent(state, generate_returns(tracker, r, tk)),
                          span),
             <<r>>, "ok")

\* KeyboardInterrupt while the loop runs: main's first except block
Interrupt ==
    /\ pc = "streaming"
    /\ \E io \in IoFor("interrupted") :
        /\ files' = RecoverySave("interrupted", io).files
        /\ write_log' = RecoverySave("interrupted", io).write_log
        /\ save_calls' = RecoverySave("interrupted", io).save_calls
        /\ clock' = RecoverySave("interrupted", io).clock
        /\ io_failures' = io_failures
                + (IF RecoverySave("interrupted", io).failed THEN 1 ELSE 0)
    /\ pc' = "exit_interrupted"
    /\ output_file' = MainOutput("interrupt", main_final_state_dict)
    /\ UNCHANGED <<review_threshold, max_revision_cycles, state, next_node, emitted,
                   rw_final_state_dict, rw_last_state_dict, main_final_state_dict,
                   main_last_state_dict, checkpointed_nodes, last_call, loaded, gw, tracker,
                   workflow, invoke_calls, runs, disk, chunker>>

\* the stream is exhausted: _run_workflow returns its two locals to main,
\* which writes final_essay to the output path.  The stream has yielded the
\* event of every node that ran, so final_state_dict is set at this point.
Finish ==
    /\ pc = "streaming"
    /\ next_node = "END"
    /\ rw_final_state_dict # None
    /\ LET end == RunWorkflowEnd(rw_final_state_dict, None) IN
        /\ main_final_state_dict' = end.final_state_dict
        /\ invoke_calls' = invoke_calls + end.invoke_calls
        /\ output_file' = MainOutput("returned", end.final_state_dict)
    /\ main_last_state_dict' = rw_last_state_dict
    /\ pc' = "exit_ok"
    /\ UNCHANGED <<review_threshold, max_revision_cycles, state, next_node, emitted,
                   rw_final_state_dict, rw_last_state_dict, checkpointed_nodes,
                   files, write_log, io_failures, last_call, clock, save_calls,
                   loaded, gw, tracker, workflow, runs, disk, chunker>>

\* the thresholds of a run: below every score, the lowest score, the
\* default 0.7, and 1.0
Thresholds == {0 - 1, 0, 7, 10}
Topics == {"", "T"}
CriteriaTexts == {"", "C"}
ChunkLists == {[i \in 1..n |-> "chunk"] : n \in 0..MaxChunks}

\* main up to the call of _run_workflow
Init ==
    /\ review_threshold \in Thresholds
    /\ max_revision_cycles \in 0..MaxCycles
    /\ state \in {[EssayState EXCEPT !.topic = t, !.criteria = c,
                                     !.literature_chunks = l] :
                    t \in Topics, c \in CriteriaTexts, l \in ChunkLists}
    /\ next_node = "research"
    /\ emitted = <<>>
    /\ pc = "streaming"
    /\ rw_final_state_dict = None
    /\ rw_last_state_dict = None
    /\ main_final_state_dict = None
    /\ main_last_state_dict = None
    /\ checkpointed_nodes = {}
    /\ files = EmptyMap
    /\ write_log = <<>>
    /\ output_file = None
    /\ io_failures = 0
    /\ last_call = NoCall
    /\ clock = 0
    /\ save_calls = <<>>
    /\ loaded = None
    /\ gw = GwIdle
    /\ tracker \in TrackerModes
    /\ workflow = NoWorkflow
    /\ invoke_calls = 0
    /\ runs = <<>>
    /\ disk = EmptyMap
    /\ chunker = ChunkerIdle

Next ==
    \/ Research
    \/ Outline
    \/ Writer
    \/ Citation
    \/ Review
    \/ IncrementRevision
    \/ Editor
    \/ Interrupt
    \/ Finish

Spec == Init /\ [][Next]_vars

(***************************************************************************)
(* The stage functions and the controller called on their own: the input   *)
(* State is drawn from the values below, one function is applied to it     *)
(* once, and last_call records what it did.  The fields a function reads   *)
(* take every value of their sets, over a default and a populated State.   *)
(***************************************************************************)
SectionsValues ==
    {[n \in D |-> "old"] : D \in SUBSET (SectionNames \cup {"Untitled Section"})}
CitationLists ==
    {<<>>,
     <<[text |-> "(A, 2020)", section |-> "S1"]>>,
     <<[text |-> "(A, 2020)", section |-> "S1"],
       [type |-> "bibliography", author |-> "A", year |-> "2020", title |-> "T1",
        publisher |-> "P"],
       [type |-> "book", author |-> "B"]>>,
     <<[type |-> "bibliography", author |-> "B", title |-> "T2"],
       [text |-> "(A, 2020)", section |-> "S1"],
       [type |-> "bibliography", author |-> "A", year |-> "2020", title |-> "T1",
        publisher |-> "P"]>>}
FeedbackLists == {<<>>, <<"Strengths:", <<"  - ", "s">>>>}

PopulatedState ==
    [topic |-> "T", criteria |-> "C", literature_chunks |-> <<"chunk">>,
     research_notes |-> [arguments |-> <<"a1">>, quotes |-> <<>>, themes |-> <<"t1">>],
     outline |-> [title |-> "t", sections |-> <<[name |-> "S1", key_points |-> <<>>]>>],
     sections |-> [n \in {"S1"} |-> "old"],
     citations |-> <<[text |-> "(A, 2020)", section |-> "S1"]>>,
     review_feedback |-> <<"Strengths:", <<"  - ", "s">>>>,
     final_essay |-> <<"essay">>, revision_count |-> 1, review_score |-> 5]

BaseStates == {EssayState, PopulatedState}

StageNames == {"research", "outline", "writer", "citation", "review", "editor"}

StageInputs(node_name) ==
    CASE node_name = "research" ->
           {[b EXCEPT !.topic = t, !.literature_chunks = l] :
              b \in BaseStates, t \in Topics, l \in ChunkLists}
      [] node_name = "outline" ->
           {[b EXCEPT !.topic = t, !.criteria = c, !.research_notes = n] :
              b \in BaseStates, t \in Topics, c \in CriteriaTexts, n \in NotesValues}
      [] node_name = "writer" ->
           {[b EXCEPT !.outline = o, !.sections = s, !.revision_count = k] :
              b \in BaseStates, o \in OutlineValues, s \in SectionsValues,
              k \in 0..MaxCycles}
      [] node_name = "citation" ->
           {[b EXCEPT !.sections = s, !.literature_chunks = l] :
              b \in BaseStates, s \in SectionsValues, l \in ChunkLists}
      [] node_name = "review" ->
           {[b EXCEPT !.sections = s, !.topic = t, !.criteria = c] :
              b \in BaseStates, s \in SectionsValues, t \in Topics, c \in CriteriaTexts}
      [] node_name = "editor" ->
           {[b EXCEPT !.sections = s, !.citations = c, !.review_feedback = f] :
              b \in BaseStates, s \in SectionsValues, c \in CitationLists,
              f \in FeedbackLists}
      [] OTHER ->
           {[b EXCEPT !.review_score = sc, !.revision_count = k] :
              b \in BaseStates, sc \in Scores, k \in 0..MaxCycles}

StageInit ==
    /\ review_threshold \in Scores
    /\ max_revision_cycles \in 0..MaxCycles
    /\ next_node \in StageNames \cup {"should_revise", "increment_revision"}
    /\ state \in StageInputs(next_node)
    /\ (next_node \in StageNames =>
            review_threshold = 7 /\ max_revision_cycles = MaxCycles)
    /\ emitted = <<>>
    /\ pc = "calling"
    /\ rw_final_state_dict = None
    /\ rw_last_state_dict = None
    /\ main_final_state_dict = None
    /\ main_last_state_dict = None
    /\ checkpointed_nodes = {}
    /\ files = EmptyMap
    /\ write_log = <<>>
    /\ output_file = None
    /\ io_failures = 0
    /\ last_call = NoCall
    /\ clock = 0
    /\ save_calls = <<>>
    /\ loaded = None
    /\ gw = GwIdle
    /\ tracker \in TrackerModes
    /\ workflow = NoWorkflow
    /\ invoke_calls = 0
    /\ runs = <<>>
    /\ disk = EmptyMap
    /\ chunker = ChunkerIdle

\* the function node_name is called on the state and returns res (or raises)
Call(node_name, res, answers) ==
    /\ pc = "calling"
    /\ next_node = node_name
    /\ last_call' = CallRecord(node_name, state, res, answers)
    /\ pc' = "returned"
    /\ UNCHANGED <<review_threshold, max_revision_cycles, state, next_node, emitted,
                   rw_final_state_dict, rw_last_state_dict, main_final_state_dict,
                   main_last_state_dict, checkpointed_nodes, files, write_log,
                   output_file, io_failures, clock, save_calls, loaded, gw, tracker,
                   workflow, invoke_calls, runs, disk, chunker>>

CallResearch ==
    \E r \in ResearchOutcomes(state), tk \in TrackingOutcomes(tracker),
       span \in SpanOutcomes(tracker) :
        Call("research",
             tracked_node(tracker,
                          research_agent(state, generate_returns(tracker, r, tk)),
                          span),
             <<r>>)

CallOutline ==
    \E r1 \in OutlineOutcomes1(state) :
        \E r2 \in OutlineOutcomes2(state, r1), tk \in TrackingOutcomes(tracker),
           span \in SpanOutcomes(tracker) :
            Call("outline",
                 tracked_node(tracker,
                              outline_agent(state, generate_returns(tracker, r1, tk),
                                            generate_returns(tracker, r2, tk)),
                              span),
                 <<r1, r2>>)

CallWriter ==
    \E resps \in WriterOutcomes(state), tk \in TrackingOutcomes(tracker),
       span \in SpanOutcomes(tracker) :
        Call("writer",
             tracked_node(tracker,
                          writer_agent(state,
                                       [k \in DOMAIN resps |->
                                          generate_returns(tracker, resps[k], tk)]),
                          span),
             resps)

CallCitation ==
    \E r \in CitationOutcomes(state), tk \in TrackingOutcomes(tracker),
       span \in SpanOutcomes(tracker) :
        Call("citation",
             tracked_node(tracker,
                          citation_agent(state, generate_returns(tracker, r, tk)),
                          span),
             <<r>>)

CallReview ==
    \E r \in ReviewOutcomes(state), tk \in TrackingOutcomes(tracker),
       span \in SpanOutcomes(tracker) :
        Call("review",
             tracked_node(tracker,
                          review_agent(state, generate_returns(tracker, r, tk)),
                          span),
             <<r>>)

CallEditor ==
    \E r \in EditorOutcomes(state), tk \in TrackingOutcomes(tracker),
       span \in SpanOutcomes(tracker) :
        Call("editor",
             tracked_node(tracker,
                          editor_agent(state, generate_returns(tracker, r, tk)),
                          span),
             <<r>>)

\* should_revise is called on the state: the patch holds the route it returns
CallShouldRevise ==
    Call("should_revise", Returned("route" :> should_revise(state), 0), <<>>)

CallIncrementRevision ==
    Call("increment_revision",
         Returned("revision_count" :> increment_revision_node(state).revision_count, 0),
         <<>>)

StageNext ==
    \/ CallResearch
    \/ CallOutline
    \/ CallWriter
    \/ CallCitation
    \/ CallReview
    \/ CallEditor
    \/ CallShouldRevise
    \/ CallIncrementRevision

StageSpec == StageInit /\ [][StageNext]_vars

(***************************************************************************)
(* The checkpoint store called on its own: save_checkpoint is called on    *)
(* one directory with States and step names drawn from the values below,   *)
(* and load_checkpoint reads a file of the directory back.                 *)
(***************************************************************************)
StoreStates ==
    {[b EXCEPT !.revision_count = k] : b \in BaseStates, k \in {0, MaxCycles}}
StoreSteps == {"writer", "review"}

StoreInit ==
    /\ review_threshold = 7
    /\ max_revision_cycles = MaxCycles
    /\ state = EssayState
    /\ next_node = "none"
    /\ emitted = <<>>
    /\ pc = "store"
    /\ rw_final_state_dict = None
    /\ rw_last_state_dict = None
    /\ main_final_state_dict = None
    /\ main_last_state_dict = None
    /\ checkpointed_nodes = {}
    /\ files = EmptyMap
    /\ write_log = <<>>
    /\ output_file = None
    /\ io_failures = 0
    /\ last_call = NoCall
    /\ clock = 0
    /\ save_calls = <<>>
    /\ loaded = None
    /\ gw = GwIdle
    /\ tracker = "none"
    /\ workflow = NoWorkflow
    /\ invoke_calls = 0
    /\ runs = <<>>
    /\ disk = EmptyMap
    /\ chunker = ChunkerIdle

\* save_checkpoint(s, checkpoint_dir, step_name)
SaveCheckpoint ==
    /\ pc = "store"
    /\ Len(save_calls) < MaxSaves
    /\ \E s \in StoreStates, step_name \in StoreSteps :
        /\ files' = save_checkpoint(files, s, step_name, clock)
        /\ write_log' = Append(write_log, CheckpointFile(s, step_name))
        /\ save_calls' = Append(save_calls,
                                [step |-> step_name, state |-> s, now |-> clock])
        /\ state' = s
    /\ clock' = clock + 1
    /\ loaded' = None
    /\ UNCHANGED <<review_threshold, max_revision_cycles, next_node, emitted, pc,
                   rw_final_state_dict, rw_last_state_dict, main_final_state_dict,
                   main_last_state_dict, checkpointed_nodes, output_file,
                   io_failures, last_call, gw, tracker,
                   workflow, invoke_calls, runs, disk, chunker>>

\* load_checkpoint(checkpoint_file) on a file of the directory
LoadCheckpoint ==
    /\ pc = "store"
    /\ loaded = None
    /\ \E f \in DOMAIN files :
        loaded' = Some([file |-> f, data |-> load_checkpoint(files, f)])
    /\ UNCHANGED <<review_threshold, max_revision_cycles, state, next_node, emitted,
                   pc, rw_final_state_dict, rw_last_state_dict,
                   main_final_state_dict, main_last_state_dict, checkpointed_nodes,
                   files, write_log, output_file, io_failures, last_call, clock,
                   save_calls, gw, tracker,
                   workflow, invoke_calls, runs, disk, chunker>>

\* the States save_intermediate_essay is called on
EssayInputs ==
    {[PopulatedState EXCEPT !.topic = t, !.outline = o, !.sections = s,
                            !.citations = c, !.revision_count = k] :
        t \in Topics, o \in OutlineValues, s \in SectionsValues,
        c \in CitationLists, k \in {0, MaxCycles}}

\* save_intermediate_essay(s, checkpoint_dir, step_name) on a new directory
SaveIntermediateEssay ==
    /\ pc = "store"
    /\ save_calls = <<>>
    /\ \E s \in EssayInputs, step_name \in StoreSteps :
        /\ files' = save_intermediate_essay(files, s, step_name)
        /\ write_log' = IF files' = files THEN write_log
                        ELSE Append(write_log, EssayFile(s, step_name))
        /\ last_call' = [NoCall EXCEPT !.node = "save_intermediate_essay",
                                       !.input = s, !.input_after = s,
                                       !.patch = "step_name" :> step_name]
        /\ state' = s
    /\ pc' = "essay_saved"
    /\ UNCHANGED <<review_threshold, max_revision_cycles, next_node, emitted,
                   rw_final_state_dict, rw_last_state_dict, main_final_state_dict,
                   main_last_state_dict, checkpointed_nodes, output_file,
                   io_failures, clock, save_calls, loaded, gw, tracker,
                   workflow, invoke_calls, runs, disk, chunker>>

StoreNext ==
    \/ SaveCheckpoint
    \/ LoadCheckpoint
    \/ SaveIntermediateEssay

StoreSpec == StoreInit /\ [][StoreNext]_vars

(***************************************************************************)
(* One gateway call of a stage, step by step: a stage that makes a single  *)
(* call (Research, Cite and Review call generate_structured, Edit calls    *)
(* generate) is called on a State that meets its precondition, the gateway *)
(* checks the connection, posts the request up to max_retries times,       *)
(* parses a structured response, and the stage returns.                    *)
(***************************************************************************)
GatewayCallers == {"research", "citation", "review", "editor"}

\* the response texts the backend may send to the stage node_name
GatewayTexts(node_name) ==
    LET bodies == CASE node_name = "research" -> NotesValues
                    [] node_name = "citation" -> CitationValues
                    [] node_name = "review" -> ReviewValues
                    [] OTHER -> SectionTexts
    IN  IF node_name = "editor"
        THEN {[fenced |-> FALSE, valid |-> TRUE, body |-> b] : b \in bodies}
        ELSE {[fenced |-> f, valid |-> TRUE, body |-> b] :
                 f \in BOOLEAN, b \in bodies}
             \cup {[fenced |-> f, valid |-> FALSE, body |-> EmptyMap] : f \in BOOLEAN}

\* the stage function node_name applied to s with the gateway result r
StageResult(node_name, s, r) ==
    CASE node_name = "research" -> research_agent(s, r)
      [] node_name = "citation" -> citation_agent(s, r)
      [] node_name = "review" -> review_agent(s, r)
      [] node_name = "editor" -> editor_agent(s, r)

GatewayInit ==
    /\ review_threshold = 7
    /\ max_revision_cycles = MaxCycles
    /\ next_node \in GatewayCallers
    /\ state = PopulatedState
    /\ emitted = <<>>
    /\ pc = "calling"
    /\ rw_final_state_dict = None
    /\ rw_last_state_dict = None
    /\ main_final_state_dict = None
    /\ main_last_state_dict = None
    /\ checkpointed_nodes = {}
    /\ files = EmptyMap
    /\ write_log = <<>>
    /\ output_file = None
    /\ io_failures = 0
    /\ last_call = NoCall
    /\ clock = 0
    /\ save_calls = <<>>
    /\ loaded = None
    /\ gw = GwIdle
    /\ tracker \in TrackerModes
    /\ workflow = NoWorkflow
    /\ invoke_calls = 0
    /\ runs = <<>>
    /\ disk = EmptyMap
    /\ chunker = ChunkerIdle

GatewayUnchanged ==
    UNCHANGED <<review_threshold, max_revision_cycles, state, next_node, emitted,
                pc, rw_final_state_dict, rw_last_state_dict, main_final_state_dict,
                main_last_state_dict, checkpointed_nodes, files, write_log,
                output_file, io_failures, last_call, clock, save_calls, loaded,
                tracker,
                workflow, invoke_calls, runs, disk, chunker>>

\* the stage calls the gateway: generate is entered and checks the connection
GenerateStart ==
    /\ pc = "calling"
    /\ gw.pc = "idle"
    /\ \E connected \in BOOLEAN :
          gw' = generate_start(gw, next_node # "editor", connected)
    /\ GatewayUnchanged

\* one pass of the retry loop: the request is posted and answered or fails
RequestAttempt ==
    /\ pc = "calling"
    /\ gw.pc = "request"
    /\ \E outcome \in {"ok", "request_exception"} :
          \E text \in (IF outcome = "ok" THEN GatewayTexts(next_node) ELSE {NoText}) :
              gw' = retry_attempt(gw, outcome, text)
    /\ GatewayUnchanged

\* generate has returned the text to generate_structured, which parses it
ParseResponse ==
    /\ pc = "calling"
    /\ gw.pc = "parse"
    /\ gw' = parse_response(gw)
    /\ GatewayUnchanged

\* the gateway call has returned or raised, and the stage returns its patch
StageReturns ==
    /\ gw.pc = "done"
    /\ \E tk \in TrackingOutcomes(tracker), span \in SpanOutcomes(tracker) :
          Call(next_node,
               tracked_node(tracker,
                            StageResult(next_node, state,
                                        generate_returns(tracker, gw.result, tk)),
                            span),
               <<gw.result>>)

GatewayNext ==
    \/ GenerateStart
    \/ RequestAttempt
    \/ ParseResponse
    \/ StageReturns

GatewaySpec == GatewayInit /\ [][GatewayNext]_vars

(***************************************************************************)
(* The driving loop called on a workflow object of its own: _run_workflow  *)
(* takes the workflow as an argument and uses its stream and its invoke.   *)
(* The stream yields a bounded sequence of events, the empty one included, *)
(* and invoke returns a terminal State.                                    *)
(***************************************************************************)
MaxEvents == 2   \* the stream yields at most this many events

StreamEvents ==
    {[node |-> n, state |-> s] : n \in {"writer", "editor"}, s \in BaseStates}
StreamValues == UNION {[1..n -> StreamEvents] : n \in 0..MaxEvents}
InvokeValues == BaseStates

DriverInit ==
    /\ review_threshold = 7
    /\ max_revision_cycles = MaxCycles
    /\ state = EssayState
    /\ next_node = "none"
    /\ emitted = <<>>
    /\ pc = "streaming"
    /\ rw_final_state_dict = None
    /\ rw_last_state_dict = None
    /\ main_final_state_dict = None
    /\ main_last_state_dict = None
    /\ checkpointed_nodes = {}
    /\ files = EmptyMap
    /\ write_log = <<>>
    /\ output_file = None
    /\ io_failures = 0
    /\ last_call = NoCall
    /\ clock = 0
    /\ save_calls = <<>>
    /\ loaded = None
    /\ gw = GwIdle
    /\ tracker = "none"
    /\ workflow \in [stream : StreamValues, invoke : InvokeValues]
    /\ invoke_calls = 0
    /\ runs = <<>>
    /\ disk = EmptyMap
    /\ chunker = ChunkerIdle

\* the stream yields its next event and the body of the loop handles it
StreamEvent ==
    /\ pc = "streaming"
    /\ workflow.stream # <<>>
    /\ LET node_name == Head(workflow.stream).node
           s == Head(workflow.stream).state
       IN  \E io \in IoFor(node_name) :
            /\ state' = s
            /\ emitted' = Append(emitted, Head(workflow.stream))
            /\ files' = LoopBody(node_name, s, io).files
            /\ write_log' = LoopBody(node_name, s, io).write_log
            /\ checkpointed_nodes' = LoopBody(node_name, s, io).checkpointed_nodes
            /\ save_calls' = LoopBody(node_name, s, io).save_calls
            /\ clock' = LoopBody(node_name, s, io).clock
            /\ io_failures' = io_failures
                    + (IF LoopBody(node_name, s, io).failed THEN 1 ELSE 0)
            /\ rw_final_state_dict' = Some(s)
            /\ rw_last_state_dict' = Some(s)
            /\ pc' = LoopBodyEnds(LoopBody(node_name, s, io).failed)
    /\ workflow' = [workflow EXCEPT !.stream = Tail(@)]
    /\ UNCHANGED <<review_threshold, max_revision_cycles, next_node,
                   main_final_state_dict, main_last_state_dict, output_file,
                   last_call, loaded, gw, tracker, invoke_calls, runs, disk,
                   chunker>>

\* the stream is exhausted: the end of _run_workflow, and main's output
StreamEnds ==
    /\ pc = "streaming"
    /\ workflow.stream = <<>>
    /\ LET end == RunWorkflowEnd(rw_final_state_dict, Some(workflow.invoke)) IN
        /\ main_final_state_dict' = end.final_state_dict
        /\ invoke_calls' = invoke_calls + end.invoke_calls
        /\ output_file' = MainOutput("returned", end.final_state_dict)
    /\ main_last_state_dict' = rw_last_state_dict
    /\ pc' = "exit_ok"
    /\ UNCHANGED <<review_threshold, max_revision_cycles, state, next_node, emitted,
                   rw_final_state_dict, rw_last_state_dict, checkpointed_nodes,
                   files, write_log, io_failures, last_call, clock, save_calls,
                   loaded, gw, tracker, workflow, runs, disk, chunker>>

DriverNext ==
    \/ StreamEvent
    \/ StreamEnds

DriverSpec == DriverInit /\ [][DriverNext]_vars

(***************************************************************************)
(* Two runs of main at the same time, as two processes: each has its own   *)
(* State, graph position and loop locals, and both write to one file       *)
(* system.  A path is the sequence of its components; an output path is    *)
(* given by its directory and the stem of its file name.  Both runs use    *)
(* the same configuration, their writes succeed, and their literature is   *)
(* empty, so that what a run emits depends on its own inputs only.         *)
(***************************************************************************)
MaxCyclesOfTwo == 0   \* max_revision_cycles of the two runs

OutputPaths ==
    {[parent |-> "a", stem |-> "essay"], [parent |-> "a", stem |-> "draft"],
     [parent |-> "b", stem |-> "essay"]}

\* a checkpoint directory named by the stem only
M_checkpoint_dir_IgnoresParent(output) == <<"a", <<output.stem, "_checkpoints">>>>

\* checkpoint_dir = output_path.parent / f"{output_path.stem}_checkpoints"
checkpoint_dir(output) == <<output.parent, <<output.stem, "_checkpoints">>>>

\* the path main opens for the essay
OutputPath(output) == <<output.parent, <<output.stem, ".md">>>>

\* the files of the directory dir on the file system d, by name
DirFiles(d, dir) ==
    [n \in {p[3] : p \in {q \in DOMAIN d : Len(q) = 3 /\ SubSeq(q, 1, 2) = dir}}
        |-> d[dir \o <<n>>]]

\* the file system d once the directory dir holds the files fs
WithDir(d, dir, fs) ==
    [p \in DOMAIN d \cup {dir \o <<n>> : n \in DOMAIN fs} |->
        IF Len(p) = 3 /\ SubSeq(p, 1, 2) = dir /\ p[3] \in DOMAIN fs
        THEN fs[p[3]]
        ELSE d[p]]

\* what the node node_name may return on s, over the gateway's answers
NodeResults(node_name, s) ==
    CASE node_name = "research" ->
           {research_agent(s, r) : r \in ResearchOutcomes(s)}
      [] node_name = "outline" ->
           UNION {{outline_agent(s, r1, r2) : r2 \in OutlineOutcomes2(s, r1)} :
                    r1 \in OutlineOutcomes1(s)}
      [] node_name = "writer" ->
           {writer_agent(s, resps) : resps \in WriterOutcomes(s)}
      [] node_name = "citation" ->
           {citation_agent(s, r) : r \in CitationOutcomes(s)}
      [] node_name = "review" ->
           {review_agent(s, r) : r \in ReviewOutcomes(s)}
      [] node_name = "editor" ->
           {editor_agent(s, r) : r \in EditorOutcomes(s)}
      [] node_name = "increment_revision" ->
           {Returned("revision_count" :> increment_revision_node(s).revision_count, 0)}

\* the body of the loop of the run run for the event (node_name, s), on the
\* files fs of its checkpoint directory, at the time now
RunLoopBody(run, fs, node_name, s, now) ==
    LET checkpoint_key == <<node_name, s.revision_count>>
        saving == node_name \in CheckpointNodes
                    /\ checkpoint_key \notin run.checkpointed_nodes
        essay == node_name \in EssayNodes /\ s.sections # EmptyMap
    IN  IF ~saving
        THEN [files |-> fs, checkpointed_nodes |-> run.checkpointed_nodes,
              saves |-> run.saves, names |-> {}]
        ELSE [files |-> IF essay
                        THEN save_intermediate_essay(
                                 save_checkpoint(fs, s, node_name, now), s, node_name)
                        ELSE save_checkpoint(fs, s, node_name, now),
              checkpointed_nodes |-> run.checkpointed_nodes \cup {checkpoint_key},
              saves |-> Append(run.saves,
                               [step |-> node_name, state |-> s, now |-> now]),
              names |-> {CheckpointFile(s, node_name)}
                        \cup (IF essay THEN {EssayFile(s, node_name)} ELSE {})]

\* main of one run up to the call of _run_workflow
NewRun(output, criteria) ==
    [output |-> output,
     state |-> [EssayState EXCEPT !.topic = "T", !.criteria = criteria],
     next_node |-> "research", emitted |-> <<>>, checkpointed_nodes |-> {},
     saves |-> <<>>, written |-> {}, pc |-> "streaming"]

TwoRunsInit ==
    /\ review_threshold = 7
    /\ max_revision_cycles = MaxCyclesOfTwo
    /\ state = EssayState
    /\ next_node = "none"
    /\ emitted = <<>>
    /\ pc = "two_runs"
    /\ rw_final_state_dict = None
    /\ rw_last_state_dict = None
    /\ main_final_state_dict = None
    /\ main_last_state_dict = None
    /\ checkpointed_nodes = {}
    /\ files = EmptyMap
    /\ write_log = <<>>
    /\ output_file = None
    /\ io_failures = 0
    /\ last_call = NoCall
    /\ clock = 0
    /\ save_calls = <<>>
    /\ loaded = None
    /\ gw = GwIdle
    /\ tracker = "none"
    /\ workflow = NoWorkflow
    /\ invoke_calls = 0
    /\ \E o2 \in OutputPaths, c1 \in CriteriaTexts, c2 \in CriteriaTexts :
          runs = <<NewRun([parent |-> "a", stem |-> "essay"], c1), NewRun(o2, c2)>>
    /\ disk = EmptyMap
    /\ chunker = ChunkerIdle

TwoRunsUnchanged ==
    UNCHANGED <<review_threshold, max_revision_cycles, state, next_node, emitted,
                pc, rw_final_state_dict, rw_last_state_dict, main_final_state_dict,
                main_last_state_dict, checkpointed_nodes, files, write_log,
                output_file, io_failures, last_call, save_calls, loaded, gw,
                tracker, workflow, invoke_calls, chunker>>

\* the graph of run i runs its next node and the loop of run i handles the
\* event; an exception of the node ends the run (main has no last state to
\* save then)
RunStep(i) ==
    /\ runs[i].pc = "streaming"
    /\ runs[i].next_node # "END"
    /\ \E res \in NodeResults(runs[i].next_node, runs[i].state) :
        IF res.raised
        THEN /\ runs' = [runs EXCEPT ![i].pc = "exit_error"]
             /\ UNCHANGED <<disk, clock>>
        ELSE LET s == model_copy(runs[i].state, res.patch)
                 dir == checkpoint_dir(runs[i].output)
                 body == RunLoopBody(runs[i], DirFiles(disk, dir),
                                     runs[i].next_node, s, clock)
             IN  /\ runs' = [runs EXCEPT
                        ![i].state = s,
                        ![i].next_node = Successor(runs[i].next_node, s),
                        ![i].emitted = Append(@, [node |-> runs[i].next_node,
                                                  state |-> s]),
                        ![i].checkpointed_nodes = body.checkpointed_nodes,
                        ![i].saves = body.saves,
                        ![i].written = @ \cup {dir \o <<n>> : n \in body.names}]
                 /\ disk' = WithDir(disk, dir, body.files)
                 /\ clock' = IF body.names = {} THEN clock ELSE clock + 1
    /\ TwoRunsUnchanged

\* the stream of run i is exhausted and its main writes the essay
RunFinish(i) ==
    /\ runs[i].pc = "streaming"
    /\ runs[i].next_node = "END"
    /\ runs' = [runs EXCEPT ![i].pc = "exit_ok",
                            ![i].written = @ \cup {OutputPath(runs[i].output)}]
    /\ disk' = (OutputPath(runs[i].output) :> runs[i].state.final_essay) @@ disk
    /\ clock' = clock
    /\ TwoRunsUnchanged

TwoRunsNext ==
    \/ \E i \in 1..2 : RunStep(i)
    \/ \E i \in 1..2 : RunFinish(i)

TwoRunsSpec == TwoRunsInit /\ [][TwoRunsNext]_vars

(***************************************************************************)
(* chunk_text (src/loaders/pdf_loader.py) called on its own.  The cleaned  *)
(* text is given by its length and the positions of its periods (its       *)
(* whitespace is single blanks, so it holds no newline); positions count   *)
(* from 0, a chunk is the range [from, to) it was cut from, and sizes are  *)
(* in tokens of chars_per_token characters.                                *)
(***************************************************************************)
MaxChunkSize == 7     \* chunk_size is drawn from 1..MaxChunkSize
MaxTextLength == 30   \* the cleaned text has at most this many characters
MaxIterations == 4    \* the loop is followed for at most this many passes

chars_per_token == 4

Min(a, b) == IF a < b THEN a ELSE b
Max(a, b) == IF a > b THEN a ELSE b

\* the position a slice bound i stands for in a text of length n
SliceBound(i, n) == IF i >= 0 THEN Min(i, n) ELSE Max(n + i, 0)

\* one pass of the while loop of chunk_text
chunk_pass(c) ==
    LET chunk_char_size == c.chunk_size * chars_per_token
        overlap_char_size == c.chunk_overlap * chars_per_token
        end_pos == Min(c.current_pos + chunk_char_size, c.text_length)
        from == SliceBound(c.current_pos, c.text_length)
        to == Max(SliceBound(end_pos, c.text_length), from)
        \* int(chunk_char_size * 0.2)
        search_start == Max(c.current_pos, end_pos - (chunk_char_size \div 5))
        found == {i \in (search_start - c.current_pos)..(to - from - 1) :
                    (from + i) \in c.periods}
        last_period == IF found = {} THEN 0 - 1
                       ELSE CHOOSE i \in found : \A j \in found : j <= i
        last_newline == 0 - 1
        break_point == Max(last_period, last_newline)
        breaks == end_pos < c.text_length /\ 2 * break_point > chunk_char_size
        end_pos2 == IF breaks THEN c.current_pos + break_point + 1 ELSE end_pos
        to2 == IF breaks THEN Min(from + break_point + 1, to) ELSE to
    IN  IF end_pos2 >= c.text_length
        THEN [c EXCEPT !.chunks = Append(@, <<from, to2>>), !.pc = "done"]
        ELSE [c EXCEPT !.chunks = Append(@, <<from, to2>>),
                       !.current_pos = end_pos2 - overlap_char_size,
                       !.pc = IF end_pos2 - overlap_char_size < c.text_length
                              THEN "loop" ELSE "done"]

ChunkInit ==
    /\ review_threshold = 7
    /\ max_revision_cycles = MaxCycles
    /\ state = EssayState
    /\ next_node = "none"
    /\ emitted = <<>>
    /\ pc = "chunking"
    /\ rw_final_state_dict = None
    /\ rw_last_state_dict = None
    /\ main_final_state_dict = None
    /\ main_last_state_dict = None
    /\ checkpointed_nodes = {}
    /\ files = EmptyMap
    /\ write_log = <<>>
    /\ output_file = None
    /\ io_failures = 0
    /\ last_call = NoCall
    /\ clock = 0
    /\ save_calls = <<>>
    /\ loaded = None
    /\ gw = GwIdle
    /\ tracker = "none"
    /\ workflow = NoWorkflow
    /\ invoke_calls = 0
    /\ runs = <<>>
    /\ disk = EmptyMap
    /\ \E n \in 0..MaxTextLength, p \in (0 - 1)..(MaxTextLength - 1),
          size \in 1..MaxChunkSize, overlap \in 0..(MaxChunkSize - 1) :
          /\ p < n
          /\ overlap < size
          /\ chunker = [ChunkerIdle EXCEPT
                            !.pc = "called", !.text_length = n,
                            !.periods = IF p < 0 THEN {} ELSE {p},
                            !.chunk_size = size, !.chunk_overlap = overlap]

ChunkUnchanged ==
    UNCHANGED <<review_threshold, max_revision_cycles, state, next_node, emitted,
                pc, rw_final_state_dict, rw_last_state_dict, main_final_state_dict,
                main_last_state_dict, checkpointed_nodes, files, write_log,
                output_file, io_failures, last_call, clock, save_calls, loaded,
                gw, tracker, workflow, invoke_calls, runs, disk>>

\* chunk_text is entered: an empty text gives no chunk, any other text
\* enters the loop at position 0
ChunkStart ==
    /\ chunker.pc = "called"
    /\ chunker' = [chunker EXCEPT !.pc = IF chunker.text_length = 0 THEN "done"
                                         ELSE "loop"]
    /\ ChunkUnchanged

ChunkPass ==
    /\ chunker.pc = "loop"
    /\ Len(chunker.chunks) < MaxIterations
    /\ chunker' = chunk_pass(chunker)
    /\ ChunkUnchanged

ChunkNext ==
    \/ ChunkStart
    \/ ChunkPass

ChunkSpec == ChunkInit /\ [][ChunkNext]_vars

(***************************************************************************)
(* Properties.  Views of the emitted events.                               *)
(***************************************************************************)
EventsOf(node_name) == {i \in 1..Len(emitted) : emitted[i].node = node_name}
LastNode == IF emitted = <<>> THEN "none" ELSE emitted[Len(emitted)].node
GraphEnded == next_node = "END"

\* every Review pass so far returned a score below the threshold
AllReviewsBelow ==
    \A i \in EventsOf("review") : emitted[i].state.review_score < review_threshold

\* the Review -> Write transitions so far: a review event followed by the
\* increment step and then by Write
ReviewToWrite ==
    {i \in EventsOf("review") :
        /\ i + 2 <= Len(emitted)
        /\ emitted[i + 1].node = "increment_revision"
        /\ emitted[i + 2].node = "writer"}

\* C1 (revision bound): in a run of the graph that has ended and in which
\* every Review pass returned a score below review_threshold, Review was
\* followed by Write exactly max_revision_cycles times, the last Review was
\* followed by Edit, and revision_count equals max_revision_cycles.
C1_RevisionBound ==
    (GraphEnded /\ AllReviewsBelow) =>
        /\ Cardinality(ReviewToWrite) = max_revision_cycles
        /\ Cardinality(EventsOf("review")) = max_revision_cycles + 1
        /\ Cardinality(EventsOf("writer")) = max_revision_cycles + 1
        /\ LastNode = "editor"
        /\ emitted[Len(emitted) - 1].node = "review"
        /\ state.revision_count = max_revision_cycles

C1_Witness ==
    /\ GraphEnded
    /\ AllReviewsBelow
    /\ max_revision_cycles = MaxCycles
    /\ Cardinality(ReviewToWrite) = MaxCycles
    /\ state.revision_count = MaxCycles

\* the first Review pass returned a score at or above the threshold
FirstReviewPasses ==
    /\ EventsOf("review") # {}
    /\ \A i \in EventsOf("review") :
          (\A j \in EventsOf("review") : i <= j)
              => emitted[i].state.review_score >= review_threshold

\* C2 (early termination): once the first Review pass has returned a score at
\* or above review_threshold (a score equal to it included), the next node is
\* Edit, Write has run once only, no increment step has run and
\* revision_count is 0, up to and at the end of the run.
C2_EarlyTermination ==
    FirstReviewPasses =>
        /\ EventsOf("increment_revision") = {}
        /\ Cardinality(EventsOf("writer")) = 1
        /\ Cardinality(EventsOf("review")) = 1
        /\ state.revision_count = 0
        /\ (LastNode = "review" => next_node = "editor")
        /\ (GraphEnded => LastNode = "editor")

C2_Witness ==
    /\ GraphEnded
    /\ FirstReviewPasses
    /\ \E i \in EventsOf("review") : emitted[i].state.review_score = review_threshold
    /\ max_revision_cycles > 0
    /\ state.revision_count = 0

\* C3 (termination), as claimed: a run that no interrupt has ended stops only
\* after Edit has been emitted and the graph has reached END.
C3_ReachesEditThenEnd ==
    pc \in {"exit_ok", "exit_error"} => (GraphEnded /\ LastNode = "editor")

\* C4 (loop bound): whatever the scores, Review is followed by Write at most
\* max_revision_cycles times, revision_count stays within
\* 0..max_revision_cycles, and once revision_count equals max_revision_cycles
\* the controller routes to Edit for every score a Review could return.
C4_LoopBound ==
    /\ Cardinality(ReviewToWrite) <= max_revision_cycles
    /\ Cardinality(EventsOf("increment_revision")) <= max_revision_cycles
    /\ state.revision_count \in 0..max_revision_cycles
    /\ \A i \in 1..Len(emitted) :
          emitted[i].state.revision_count \in 0..max_revision_cycles
    /\ (state.revision_count = max_revision_cycles =>
            \A sc \in Scores :
                Successor("review", [state EXCEPT !.review_score = sc]) = "editor")
    /\ \A i \in EventsOf("review") :
          (emitted[i].state.revision_count = max_revision_cycles /\ i < Len(emitted))
              => emitted[i + 1].node = "editor"

C4_Witness ==
    /\ max_revision_cycles > 0
    /\ state.revision_count = max_revision_cycles
    /\ LastNode = "editor"
    /\ emitted[Len(emitted) - 1].state.review_score < review_threshold

\* a recovery checkpoint of main's except blocks is in the directory
RecoveryCheckpointSaved ==
    \E f \in DOMAIN files : f[1] = "checkpoint" /\ f[2] \in {"interrupted", "error"}

\* C5 (recovery checkpoint), as claimed: when an interrupt or an exception has
\* ended the run after at least one event was emitted, and no write to the
\* checkpoint directory has failed, a checkpoint named "interrupted" or
\* "error" has been saved.
C5_RecoveryCheckpoint ==
    (pc \in {"exit_interrupted", "exit_error"} /\ emitted # <<>> /\ io_failures = 0)
        => RecoveryCheckpointSaved

\* the order of the graph: the nodes that may follow a node
Followers(node_name) ==
    CASE node_name = "research" -> {"outline"}
      [] node_name = "outline" -> {"writer"}
      [] node_name = "writer" -> {"citation"}
      [] node_name = "citation" -> {"review"}
      [] node_name = "review" -> {"increment_revision", "editor"}
      [] node_name = "increment_revision" -> {"writer"}
      [] OTHER -> {}

\* C10 (stage order): the first event is Research's; every later event is of
\* a node that follows its predecessor in the order Research, Outline, Write,
\* Cite, Review, then increment and Write again or Edit; no event follows
\* Edit's; and exactly one node is due to run next.
C10_StageOrder ==
    /\ (emitted # <<>> => emitted[1].node = "research")
    /\ \A i \in 1..(Len(emitted) - 1) :
          emitted[i + 1].node \in Followers(emitted[i].node)
    /\ next_node \in (IF emitted = <<>> THEN {"research"}
                      ELSE IF LastNode = "editor" THEN {"END"}
                      ELSE Followers(LastNode))

C10_Witness ==
    /\ GraphEnded
    /\ LastNode = "editor"
    /\ Cardinality(EventsOf("increment_revision")) = MaxCycles
    /\ Len(emitted) = 4 + 4 * MaxCycles + 2

\* C11 (final snapshot): when a run has completed, the last event emitted is
\* Edit's and it is the only one of Edit, and the final state main received
\* is the snapshot of that event: the State Edit was called on with the
\* final_essay of Edit's patch, which is also what the output file holds.
C11_FinalSnapshotIsEdit ==
    pc = "exit_ok" =>
        /\ LastNode = "editor"
        /\ Cardinality(EventsOf("editor")) = 1
        /\ last_call.node = "editor"
        /\ main_final_state_dict = Some(emitted[Len(emitted)].state)
        /\ main_final_state_dict[1] = model_copy(last_call.input, last_call.patch)
        /\ main_final_state_dict[1].final_essay = last_call.patch.final_essay
        /\ output_file = Some(last_call.patch.final_essay)

C11_Witness ==
    /\ pc = "exit_ok"
    /\ LastNode = "editor"
    /\ Cardinality(EventsOf("writer")) = MaxCycles + 1
    /\ main_final_state_dict # None
    /\ main_final_state_dict[1].revision_count = MaxCycles
    /\ main_final_state_dict[1].research_notes # EmptyMap

\* the checkpoint file of event i of the stream
EventFile(i) == <<"checkpoint", emitted[i].node, emitted[i].state.revision_count>>

\* C12 (checkpoint coverage): while no write to the checkpoint directory has
\* failed, every Outline, Write, Cite and Review event emitted so far has its
\* checkpoint file, holding the snapshot of that event; so at completion
\* there is a checkpoint for (outline, 0) and for (writer, k), (citation, k)
\* and (review, k) for every k from 0 to the final revision_count.
C12_CheckpointCoverage ==
    io_failures = 0 =>
        /\ \A i \in 1..Len(emitted) :
              emitted[i].node \in {"outline", "writer", "citation", "review"} =>
                  /\ EventFile(i) \in DOMAIN files
                  /\ json_load(files[EventFile(i)]).step = emitted[i].node
                  /\ json_load(files[EventFile(i)]).state = emitted[i].state
        /\ (pc = "exit_ok" =>
              /\ <<"checkpoint", "outline", 0>> \in DOMAIN files
              /\ \A k \in 0..state.revision_count :
                    \A n \in {"writer", "citation", "review"} :
                        <<"checkpoint", n, k>> \in DOMAIN files)

C12_Witness ==
    /\ pc = "exit_ok"
    /\ io_failures = 0
    /\ state.revision_count = MaxCycles
    /\ <<"checkpoint", "citation", MaxCycles>> \in DOMAIN files
    /\ Cardinality(DOMAIN files) = 1 + 3 * (MaxCycles + 1)

\* the file a save_checkpoint call targets
SaveFile(c) == CheckpointFile(c.state, c.step)

\* C13 (write-once within a run): no two save_checkpoint calls of a run,
\* failed ones included, target the same file name, so no write replaces a
\* checkpoint file written earlier in the run.
C13_NoOverwrite ==
    /\ \A i, j \in 1..Len(save_calls) :
          i # j => SaveFile(save_calls[i]) # SaveFile(save_calls[j])
    /\ \A i, j \in 1..Len(write_log) : i # j => write_log[i] # write_log[j]

C13_Witness ==
    /\ pc = "exit_ok"
    /\ Len(save_calls) = 1 + 3 * (MaxCycles + 1)
    /\ io_failures = 1
    /\ \E i, j \in 1..Len(save_calls) :
          /\ i < j
          /\ save_calls[i].step = "writer"
          /\ save_calls[j].step = "writer"
          /\ save_calls[i].state.revision_count < save_calls[j].state.revision_count

\* C30 (failed run): when an exception or an interrupt has left the driving
\* loop, main has ended with exit code 1, the output file has not been
\* written and main has received no final state; the output file is written
\* only by a run that ends with exit code 0.
C30_NoOutputOnFailure ==
    /\ (pc \in {"exit_error", "exit_interrupted"} =>
            /\ ExitCode(pc) = 1
            /\ output_file = None
            /\ main_final_state_dict = None)
    /\ (output_file # None => (pc = "exit_ok" /\ ExitCode(pc) = 0))

C30_Witness ==
    /\ pc = "exit_interrupted"
    /\ LastNode = "review"
    /\ state.revision_count = MaxCycles
    /\ rw_last_state_dict # None
    /\ output_file = None

\* C36 (stage counts): in a run that has completed, Research, Outline and
\* Edit have each run exactly once, Write, Cite and Review have each run
\* exactly revision_count + 1 times, and the increment step has run exactly
\* revision_count times, for the final revision_count.
C36_StageCounts ==
    pc = "exit_ok" =>
        /\ \A n \in {"research", "outline", "editor"} :
              Cardinality(EventsOf(n)) = 1
        /\ \A n \in {"writer", "citation", "review"} :
              Cardinality(EventsOf(n)) = state.revision_count + 1
        /\ Cardinality(EventsOf("increment_revision")) = state.revision_count

C36_Witness ==
    /\ pc = "exit_ok"
    /\ state.revision_count = MaxCycles
    /\ Cardinality(EventsOf("writer")) = MaxCycles + 1
    /\ Cardinality(EventsOf("increment_revision")) = MaxCycles

\* the Outline stage has run and left an empty outline
OutlineCameEmpty ==
    \E i \in EventsOf("outline") : emitted[i].state.outline = EmptyMap

\* C37 (run on an empty outline): once Outline has yielded an empty outline,
\* no pass of Write, Cite, Review or Edit makes a gateway call, sections stay
\* empty and review_score stays 0.0 in every snapshot; the run is at most
\* 4 * max_revision_cycles + 6 events long, and when the graph has ended the
\* last event is Edit, final_essay is the empty string and, for a
\* review_threshold above 0, exactly max_revision_cycles revision loops have
\* been made.
C37_EmptyOutlineRun ==
    OutlineCameEmpty =>
        /\ (last_call.node \in {"writer", "citation", "review", "editor"} =>
                (last_call.calls = 0 /\ ~last_call.raised))
        /\ \A i \in 1..Len(emitted) :
              /\ emitted[i].state.review_score = 0
              /\ emitted[i].state.sections = EmptyMap
              /\ emitted[i].state.final_essay = <<>>
        /\ Len(emitted) <= 4 * max_revision_cycles + 6
        /\ (GraphEnded =>
                /\ LastNode = "editor"
                /\ state.final_essay = <<>>
                /\ (review_threshold > 0 =>
                        /\ Cardinality(ReviewToWrite) = max_revision_cycles
                        /\ Cardinality(EventsOf("increment_revision"))
                                = max_revision_cycles
                        /\ state.revision_count = max_revision_cycles))

C37_Witness ==
    /\ OutlineCameEmpty
    /\ pc = "exit_ok"
    /\ review_threshold > 0
    /\ max_revision_cycles = MaxCycles
    /\ Cardinality(ReviewToWrite) = MaxCycles
    /\ last_call.node = "editor"
    /\ last_call.calls = 0

\* C38 (failed save in the loop): when a write of the loop body fails while
\* the loop handles an event, the loop goes on: the event is the snapshot
\* the stage returned, the next node is the one the graph routes to from
\* that snapshot, and the loop's two locals hold the snapshot, exactly as
\* after an event whose writes succeeded.
C38_SaveFailureIsCaught ==
    [][(pc = "streaming" /\ emitted' # emitted /\ io_failures' > io_failures) =>
          /\ pc' = "streaming"
          /\ state' = model_copy(state, last_call'.patch)
          /\ emitted' = Append(emitted, [node |-> next_node, state |-> state'])
          /\ next_node' = Successor(next_node, state')
          /\ rw_final_state_dict' = Some(state')
          /\ rw_last_state_dict' = Some(state')]_vars

C38_Witness ==
    /\ io_failures > 0
    /\ pc = "exit_ok"
    /\ LastNode = "editor"
    /\ state.revision_count = MaxCycles
    /\ Cardinality(DOMAIN files) < 4 * (MaxCycles + 1)

\* C39 (output on completion): when the driving loop has completed, main has
\* written to the output path exactly the final_essay of the last emitted
\* snapshot and has ended with exit code 0, also when that final_essay is the
\* empty string.
C39_OutputIsFinalEssay ==
    pc = "exit_ok" =>
        /\ emitted # <<>>
        /\ output_file = Some(emitted[Len(emitted)].state.final_essay)
        /\ ExitCode(pc) = 0

C39_Witness ==
    /\ pc = "exit_ok"
    /\ LastNode = "editor"
    /\ emitted[Len(emitted)].state.final_essay = <<>>
    /\ output_file = Some(<<>>)

(***************************************************************************)
(* Properties of the driving loop called on a workflow object              *)
(* (DriverSpec).                                                           *)
(***************************************************************************)
\* C31 (executor fallback): invoke is not called while the loop runs; when
\* _run_workflow has returned after a stream that yielded no event, invoke
\* has been called exactly once, main has received the State invoke returned
\* and no last state, and has written that State's final_essay; when the
\* stream yielded at least one event, invoke has not been called and main
\* has received the State of the last event.
C31_InvokeFallback ==
    /\ (pc = "streaming" => invoke_calls = 0)
    /\ (pc = "exit_ok" /\ emitted = <<>> =>
            /\ invoke_calls = 1
            /\ main_final_state_dict = Some(workflow.invoke)
            /\ main_last_state_dict = None
            /\ output_file = Some(workflow.invoke.final_essay))
    /\ (pc = "exit_ok" /\ emitted # <<>> =>
            /\ invoke_calls = 0
            /\ main_final_state_dict = Some(emitted[Len(emitted)].state)
            /\ main_last_state_dict = Some(emitted[Len(emitted)].state))

C31_Witness ==
    /\ pc = "exit_ok"
    /\ emitted = <<>>
    /\ invoke_calls = 1
    /\ workflow.invoke = PopulatedState
    /\ output_file = Some(<<"essay">>)

(***************************************************************************)
(* Properties of two runs at the same time (TwoRunsSpec).                  *)
(***************************************************************************)
\* the files a run that made the saves in saves has in its directory when
\* nothing else writes there
RECURSIVE AloneFiles(_)
AloneFiles(saves) ==
    IF saves = <<>> THEN EmptyMap
    ELSE LET before == AloneFiles(SubSeq(saves, 1, Len(saves) - 1))
             c == saves[Len(saves)]
             saved == save_checkpoint(before, c.state, c.step, c.now)
         IN  IF c.step \in EssayNodes
             THEN save_intermediate_essay(saved, c.state, c.step)
             ELSE saved

\* the events of a run follow the graph from research on
FollowsGraph(run) ==
    /\ (run.emitted # <<>> => run.emitted[1].node = "research")
    /\ \A k \in 1..(Len(run.emitted) - 1) :
          run.emitted[k + 1].node
              = Successor(run.emitted[k].node, run.emitted[k].state)

DistinctDirectories == runs[1].output.parent # runs[2].output.parent

\* C33 (concurrent runs): when two runs with output paths in distinct
\* directories run at the same time, under every interleaving of their
\* steps no path is written by both, every file on the file system was
\* written by one of them, the checkpoint directory of each run holds
\* exactly the files its own saves produce when nothing else writes there,
\* each run's events follow the graph from its own State, and a run that
\* has ended well finds its own final_essay at its output path.
C33_RunsDoNotInterfere ==
    DistinctDirectories =>
        /\ runs[1].written \cap runs[2].written = {}
        /\ DOMAIN disk = runs[1].written \cup runs[2].written
        /\ \A i \in 1..2 :
              /\ DirFiles(disk, checkpoint_dir(runs[i].output))
                     = AloneFiles(runs[i].saves)
              /\ FollowsGraph(runs[i])
              /\ \A k \in 1..Len(runs[i].emitted) :
                    /\ runs[i].emitted[k].state.topic = "T"
                    /\ runs[i].emitted[k].state.criteria
                           = runs[i].emitted[1].state.criteria
              /\ (runs[i].pc = "exit_ok" =>
                     disk[OutputPath(runs[i].output)] = runs[i].state.final_essay)

C33_Witness ==
    /\ DistinctDirectories
    /\ runs[1].pc = "exit_ok"
    /\ runs[2].pc = "exit_ok"
    /\ runs[1].output.stem = runs[2].output.stem
    /\ Len(runs[1].saves) = 4 + 3 * MaxCyclesOfTwo
    /\ Len(runs[2].saves) = 4 + 3 * MaxCyclesOfTwo
    /\ \E k \in 1..(Len(runs[1].saves) - 1) :
          runs[1].saves[k].now + 1 < runs[1].saves[k + 1].now
    /\ Cardinality(DOMAIN disk) = 2 * (4 + 3 * MaxCyclesOfTwo) + 2

(***************************************************************************)
(* Properties of chunk_text called on its own (ChunkSpec).                 *)
(***************************************************************************)
\* C40 (chunk_text terminates), as claimed: for every text and every
\* chunk_size > chunk_overlap >= 0, each pass of the loop that is followed
\* by another pass leaves the scan position strictly greater than it was.
C40_PositionIncreases ==
    [][(chunker.pc = "loop" /\ chunker'.pc = "loop") =>
          chunker'.current_pos > chunker.current_pos]_vars

(***************************************************************************)
(* Properties of the checkpoint store called on its own (StoreSpec).       *)
(***************************************************************************)
\* the last call of save_checkpoint that targeted file f
LastSaveTo(f) ==
    save_calls[CHOOSE i \in 1..Len(save_calls) :
                  /\ SaveFile(save_calls[i]) = f
                  /\ \A j \in 1..Len(save_calls) :
                        SaveFile(save_calls[j]) = f => j <= i]

\* call i of save_checkpoint repeats call i - 1: same State, same step name
RepeatedSave(i) ==
    /\ i \in 2..Len(save_calls)
    /\ save_calls[i].state = save_calls[i - 1].state
    /\ save_calls[i].step = save_calls[i - 1].step

\* C14 (checkpoint idempotence): after save_checkpoint has been called twice
\* in a row with the same State and step name on one directory, the
\* directory holds one file for that (step, revision_count), no file for a
\* name no call targeted, and the file is the document of the second call,
\* carrying the second call's timestamp.
C14_SaveTwiceOverwrites ==
    \A i \in 1..Len(save_calls) :
        (RepeatedSave(i) /\ i = Len(save_calls)) =>
            /\ SaveFile(save_calls[i]) \in DOMAIN files
            /\ DOMAIN files = {SaveFile(save_calls[j]) : j \in 1..Len(save_calls)}
            /\ files[SaveFile(save_calls[i])] =
                   json_dump(CheckpointData(save_calls[i].state, save_calls[i].step,
                                            save_calls[i].now))
            /\ json_load(files[SaveFile(save_calls[i])]).timestamp
                   = <<"iso", save_calls[i].now>>

C14_Witness ==
    /\ pc = "store"
    /\ Len(save_calls) = 3
    /\ RepeatedSave(3)
    /\ save_calls[3].state.sections # EmptyMap
    /\ SaveFile(save_calls[1]) # SaveFile(save_calls[3])
    /\ Cardinality(DOMAIN files) = 2
    /\ files[SaveFile(save_calls[3])] # json_dump(CheckpointData(
            save_calls[2].state, save_calls[2].step, save_calls[2].now))

\* C15 (checkpoint round trip): load_checkpoint on the file a save_checkpoint
\* call wrote returns a record with the keys of checkpoint_data whose state
\* is the dumped State of that call, whose step is the step name given, and
\* whose revision_count and review_score are those of the State.
C15_LoadAfterSave ==
    loaded # None =>
        LET c == LastSaveTo(loaded[1].file)
            data == loaded[1].data
        IN  /\ DOMAIN data = {CheckpointKeys[k] : k \in 1..Len(CheckpointKeys)}
            /\ data.state = model_dump(c.state)
            /\ data.step = c.step
            /\ data.revision_count = c.state.revision_count
            /\ data.review_score = c.state.review_score
            /\ data.timestamp = <<"iso", c.now>>

C15_Witness ==
    /\ loaded # None
    /\ loaded[1].data.step = "review"
    /\ loaded[1].data.revision_count = MaxCycles
    /\ loaded[1].data.state.sections # EmptyMap
    /\ loaded[1].data.state = model_dump(LastSaveTo(loaded[1].file).state)
    /\ Len(save_calls) = 2

\* save_intermediate_essay has been called
EssaySaveCalled == last_call.node = "save_intermediate_essay"

\* the positions of the outline sections whose name is a key of sections
WrittenAt(s) ==
    IF "sections" \in DOMAIN s.outline
    THEN {i \in 1..Len(s.outline.sections) :
            Get(s.outline.sections[i], "name", "") \in DOMAIN s.sections}
    ELSE {}

\* the name of the k-th outline section whose name is a key of sections
NthWritten(s, k) ==
    Get(s.outline.sections[CHOOSE i \in WrittenAt(s) :
                              Cardinality({j \in WrittenAt(s) : j <= i}) = k],
        "name", "")

\* C34 (intermediate essay): save_intermediate_essay called on a State
\* without sections writes no file; called on a State with sections it
\* writes one file, named by the step and revision_count, that holds, after
\* the title line of a non-empty topic, the heading and the content of
\* exactly the outline sections whose name is a key of sections, in outline
\* order, and then, if there are citations, the References heading and one
\* line (author, year, title) per citation entry, in order.
C34_IntermediateEssay ==
    EssaySaveCalled =>
        LET s == last_call.input
            f == <<"essay", last_call.patch.step_name, s.revision_count>>
            t == IF s.topic = "" THEN 0 ELSE 1
            m == Cardinality(WrittenAt(s))
            c == Len(s.citations)
        IN  IF s.sections = EmptyMap
            THEN files = EmptyMap /\ write_log = <<>>
            ELSE /\ DOMAIN files = {f}
                 /\ write_log = <<f>>
                 /\ Len(files[f]) = t + 2 * m + (IF c = 0 THEN 0 ELSE 1 + c)
                 /\ (t = 1 => files[f][1] = <<"# ", s.topic>>)
                 /\ \A k \in 1..m :
                       /\ files[f][t + 2 * k - 1] = <<"## ", NthWritten(s, k)>>
                       /\ files[f][t + 2 * k] = s.sections[NthWritten(s, k)]
                 /\ (c > 0 => files[f][t + 2 * m + 1] = "## References")
                 /\ \A j \in 1..c :
                       files[f][t + 2 * m + 1 + j] =
                           [author |-> Get(s.citations[j], "author", "Unknown"),
                            year |-> Get(s.citations[j], "year", "n.d."),
                            title |-> Get(s.citations[j], "title", "")]

C34_Witness ==
    /\ EssaySaveCalled
    /\ Cardinality(DOMAIN last_call.input.sections) = 2
    /\ "sections" \in DOMAIN last_call.input.outline
    /\ Len(last_call.input.outline.sections) = 2
    /\ Cardinality(WrittenAt(last_call.input)) = 1
    /\ Len(last_call.input.citations) = 3
    /\ Cardinality(DOMAIN files) = 1

(***************************************************************************)
(* Properties of a stage function called on its own (StageSpec).           *)
(***************************************************************************)
StageReturned == pc = "returned" /\ last_call.node \in StageNames

\* the empty/zero patch of a stage
ZeroPatch(node_name) ==
    CASE node_name = "research" -> "research_notes" :> EmptyMap
      [] node_name = "outline" -> "outline" :> EmptyMap
      [] node_name = "writer" -> "sections" :> EmptyMap
      [] node_name = "citation" -> "citations" :> <<>>
      [] node_name = "review" -> "review_feedback" :> <<>> @@ "review_score" :> 0
      [] node_name = "editor" -> "final_essay" :> <<>>

\* C6 (no stage raises), as claimed: whatever the input State and the gateway
\* outcomes, a stage call returns a patch and does not raise.
C6_NoStageRaises ==
    StageReturned => ~last_call.raised

\* C7 (exception patch), as claimed: a stage whose gateway call failed or
\* answered with a malformed response returns its empty/zero patch.
C7_ExceptionGivesZeroPatch ==
    (StageReturned /\ last_call.caught) =>
        last_call.patch = ZeroPatch(last_call.node)

\* the section names of an outline
OutlineNames(outline) ==
    {Get(outline.sections[i], "name", "Untitled Section") :
        i \in 1..Len(outline.sections)}

\* C7 amended: after a failed or malformed gateway call Research, Outline,
\* Cite, Review and Edit return their empty/zero patch, and Write returns the
\* sections it had accumulated: every section of the input State is still
\* there, anything new is named by the outline, and if the first call failed
\* the sections are the input's.
C7_ExceptionPatch ==
    (StageReturned /\ last_call.caught) =>
        IF last_call.node = "writer"
        THEN /\ DOMAIN last_call.patch = {"sections"}
             /\ DOMAIN last_call.input.sections \subseteq DOMAIN last_call.patch.sections
             /\ DOMAIN last_call.patch.sections \subseteq
                    DOMAIN last_call.input.sections
                        \cup OutlineNames(last_call.input.outline)
             /\ (last_call.calls = 1 =>
                    last_call.patch.sections = last_call.input.sections)
        ELSE last_call.patch = ZeroPatch(last_call.node)

C7_Witness ==
    /\ StageReturned
    /\ last_call.caught
    /\ last_call.node = "writer"
    /\ last_call.calls = 2
    /\ last_call.input.sections # EmptyMap
    /\ last_call.patch.sections # last_call.input.sections

\* the required upstream field of a stage is empty
PreconditionMissing(node_name, s) ==
    CASE node_name = "research" -> s.literature_chunks = <<>>
      [] node_name = "outline" -> s.topic = "" \/ s.criteria = ""
      [] node_name \in {"citation", "review", "editor"} -> s.sections = EmptyMap
      [] OTHER -> FALSE

\* C8 (precondition degradation): a stage called with its required upstream
\* field empty returns its zero-value patch, does not raise, runs no except
\* block and makes no gateway call.
C8_PreconditionDegradation ==
    (StageReturned /\ PreconditionMissing(last_call.node, last_call.input)) =>
        /\ ~last_call.raised
        /\ ~last_call.caught
        /\ last_call.calls = 0
        /\ last_call.patch = ZeroPatch(last_call.node)

C8_Witness ==
    /\ StageReturned
    /\ last_call.node = "research"
    /\ last_call.input.literature_chunks = <<>>
    /\ last_call.input.topic = "T"
    /\ last_call.patch = ZeroPatch("research")

\* Write was called with an outline whose sections list is empty
WriterOnEmptyList ==
    /\ StageReturned
    /\ last_call.node = "writer"
    /\ "sections" \in DOMAIN last_call.input.outline
    /\ last_call.input.outline.sections = <<>>

C16_RevisionCountFrame ==
    pc = "returned" =>
        CASE last_call.node \in StageNames ->
               /\ "revision_count" \notin DOMAIN last_call.patch
               /\ model_copy(last_call.input, last_call.patch).revision_count
                      = last_call.input.revision_count
          [] last_call.node = "increment_revision" ->
               /\ DOMAIN last_call.patch = {"revision_count"}
               /\ model_copy(last_call.input, last_call.patch).revision_count
                      = last_call.input.revision_count + 1
          [] OTHER -> DOMAIN last_call.patch = {"route"}

C16_Witness ==
    /\ pc = "returned"
    /\ last_call.node = "increment_revision"
    /\ last_call.input.revision_count = MaxCycles
    /\ last_call.patch.revision_count = MaxCycles + 1
    /\ last_call.input.sections # EmptyMap

\* the name of outline section i, as writer_agent reads it
NameOf(outline, i) == Get(outline.sections[i], "name", "Untitled Section")

\* the generation calls Write is to make on s: one for every outline section
\* on a revision pass, one for every name not yet in sections on the first
ToWrite(s) ==
    IF s.revision_count > 0
    THEN Len(s.outline.sections)
    ELSE Cardinality(OutlineNames(s.outline) \ DOMAIN s.sections)

\* Write was called on a State whose outline has a sections list
WriterCalled ==
    /\ pc = "returned"
    /\ last_call.node = "writer"
    /\ "sections" \in DOMAIN last_call.input.outline

OutlineDue ==
    /\ StageReturned
    /\ last_call.node = "outline"
    /\ last_call.input.topic # ""
    /\ last_call.input.criteria # ""

\* C18 (outline fallback), as claimed: Outline called with a topic, criteria
\* and research notes returns an outline, and when the refinement call
\* answered with a mapping whose sections list is empty or absent, that
\* outline is the phase-1 outline exactly.
C18_OutlineFallback ==
    (OutlineDue /\ AnyValue(last_call.input.research_notes)) =>
        /\ ~last_call.raised
        /\ ((/\ last_call.calls = 2
             /\ last_call.answers[2].kind = "json"
             /\ Get(last_call.answers[2].value, "sections", <<>>) = <<>>)
                => last_call.patch.outline = last_call.answers[1].value)

\* C19 (no emptied outline), as claimed: Outline called with a topic and
\* criteria returns an outline, and once phase 1 has answered with an outline
\* of at least one section, the outline returned has a non-empty sections
\* list whatever the refinement call did.
C19_OutlineNeverEmptied ==
    OutlineDue =>
        /\ ~last_call.raised
        /\ ((/\ last_call.calls >= 1
             /\ last_call.answers[1].kind = "json"
             /\ Get(last_call.answers[1].value, "sections", <<>>) # <<>>)
                => Get(last_call.patch.outline, "sections", <<>>) # <<>>)

\* the entries of a citations list tagged as bibliography
TaggedBibliography(cs) ==
    {i \in 1..Len(cs) : Get(cs[i], "type", "") = "bibliography"}

\* C20 (citation tagging), as claimed: when the gateway answers Cite with N
\* in-text citations and M bibliography entries, whatever keys the entries
\* carry, the citations returned have length N + M and exactly M of them have
\* type "bibliography".
C20_CitationTagging ==
    (/\ StageReturned
     /\ last_call.node = "citation"
     /\ last_call.calls = 1
     /\ last_call.answers[1].kind = "json") =>
        LET N == Len(Get(last_call.answers[1].value, "citations", <<>>))
            M == Len(Get(last_call.answers[1].value, "bibliography", <<>>))
        IN  /\ ~last_call.raised
            /\ Len(last_call.patch.citations) = N + M
            /\ Cardinality(TaggedBibliography(last_call.patch.citations)) = M

\* C21 (review_score range), as claimed: whatever score the gateway's
\* structured response carries, the review_score Review returns lies in
\* [0.0, 1.0], and it is 0.0 after a failed Review.
C21_ReviewScoreInRange ==
    (StageReturned /\ last_call.node = "review") =>
        /\ last_call.patch.review_score \in 0..10
        /\ (last_call.caught => last_call.patch.review_score = 0)

\* the section names of the outline of s, none without a sections list
NamesOfOutline(s) ==
    IF s.outline # EmptyMap /\ "sections" \in DOMAIN s.outline
    THEN OutlineNames(s.outline)
    ELSE {}

\* every key of sections is the name of an outline section
SectionsWithinOutline(s) == DOMAIN s.sections \subseteq NamesOfOutline(s)

\* Write returned on a State whose sections keys are outline section names
WriterPass ==
    /\ StageReturned
    /\ last_call.node = "writer"
    /\ SectionsWithinOutline(last_call.input)

\* C22 (sections within the outline): the State of a new run has no sections,
\* and a Write pass on a State whose sections keys are names of the outline's
\* sections gives a State of which this is true again, whether or not a call
\* failed; the name of a section without one is "Untitled Section".
C22_SectionsWithinOutline ==
    /\ SectionsWithinOutline(EssayState)
    /\ WriterPass =>
          SectionsWithinOutline(model_copy(last_call.input, last_call.patch))

C22_Witness ==
    /\ WriterPass
    /\ last_call.input.revision_count = 0
    /\ DOMAIN last_call.input.sections = {"S1"}
    /\ DOMAIN last_call.patch.sections = {"S1", "S2"}
    /\ last_call.patch.sections["S1"] = "old"

C24_SectionsNeverShrink ==
    /\ WriterPass =>
          DOMAIN last_call.input.sections \subseteq DOMAIN last_call.patch.sections
    /\ (pc = "returned" /\ last_call.node # "writer") =>
          "sections" \notin DOMAIN last_call.patch

C24_Witness ==
    /\ WriterPass
    /\ last_call.caught
    /\ last_call.input.revision_count > 0
    /\ DOMAIN last_call.input.sections = {"S1", "S2"}
    /\ last_call.calls = 2
    /\ DOMAIN last_call.patch.sections = {"S1", "S2"}
    /\ last_call.patch.sections["S1"] = "text"
    /\ last_call.patch.sections["S2"] = "old"

\* C25 (final_essay): the State of a new run has an empty final_essay; the
\* patch of Research, Outline, Write, Cite, Review and the increment step has
\* no final_essay, so the State built from it has the final_essay the stage
\* was called with; Edit's patch is final_essay alone.
C25_OnlyEditWritesFinalEssay ==
    /\ EssayState.final_essay = <<>>
    /\ pc = "returned" =>
          IF last_call.node = "editor"
          THEN DOMAIN last_call.patch = {"final_essay"}
          ELSE /\ "final_essay" \notin DOMAIN last_call.patch
               /\ model_copy(last_call.input, last_call.patch).final_essay
                      = last_call.input.final_essay

C25_Witness ==
    /\ StageReturned
    /\ last_call.node = "editor"
    /\ last_call.input.final_essay = <<>>
    /\ last_call.patch.final_essay # <<>>
    /\ Len(last_call.patch.final_essay) > 1

\* the fields a stage writes
OutputFields(node_name) ==
    CASE node_name = "research" -> {"research_notes"}
      [] node_name = "outline" -> {"outline"}
      [] node_name = "writer" -> {"sections"}
      [] node_name = "citation" -> {"citations"}
      [] node_name = "review" -> {"review_feedback", "review_score"}
      [] node_name = "editor" -> {"final_essay"}

BibliographyAt(cs) ==
    {i \in 1..Len(cs) : "type" \in DOMAIN cs[i] /\ cs[i].type = "bibliography"}

\* the position in cs of its k-th bibliography-tagged entry
NthBibliography(cs, k) ==
    CHOOSE i \in BibliographyAt(cs) :
        Cardinality({j \in BibliographyAt(cs) : j <= i}) = k

\* Edit was called on a State with sections and its generation call succeeded
EditorSucceeded ==
    /\ last_call.node = "editor"
    /\ last_call.input.sections # EmptyMap
    /\ last_call.calls = 1
    /\ last_call.answers[1].kind = "text"

\* C35 (references block): when Edit is called on a State with sections and
\* its generation call succeeds, final_essay starts with the gateway's text;
\* without a bibliography-tagged citation it is exactly that text, and with
\* at least one it goes on with the References heading and then one entry
\* for each bibliography-tagged citation, in citation order, and nothing
\* else (no entry for an in-text citation or for one tagged otherwise).
C35_ReferencesBlock ==
    EditorSucceeded =>
        LET cs == last_call.input.citations
            text == TextOf(last_call.answers[1].value)
            essay == last_call.patch.final_essay
            n == Len(text)
            b == Cardinality(BibliographyAt(cs))
        IN  /\ ~last_call.raised /\ ~last_call.caught
            /\ Len(essay) >= n
            /\ SubSeq(essay, 1, n) = text
            /\ (b = 0 => essay = text)
            /\ (b > 0 =>
                    /\ Len(essay) = n + 1 + b
                    /\ essay[n + 1] = "## References"
                    /\ \A k \in 1..b :
                          essay[n + 1 + k] = ReferenceEntry(cs[NthBibliography(cs, k)]))

C35_Witness ==
    /\ EditorSucceeded
    /\ Cardinality(BibliographyAt(last_call.input.citations)) = 2
    /\ Len(last_call.input.citations) = 3
    /\ last_call.answers[1].value = "text"
    /\ Len(last_call.patch.final_essay) = 4

\* the gateway's answers of the last call, in call order, filled up with
\* placeholders for the calls the stage did not make
AnswersGiven ==
    [k \in 1..(MaxSections + 2) |->
        IF k <= Len(last_call.answers) THEN last_call.answers[k] ELSE NoAnswer]

\* what the function node_name returns on s for the gateway's answers a,
\* with no tracker anywhere
Untracked(node_name, s, a) ==
    CASE node_name = "research" -> research_agent(s, a[1])
      [] node_name = "outline" -> outline_agent(s, a[1], a[2])
      [] node_name = "writer" -> writer_agent(s, a)
      [] node_name = "citation" -> citation_agent(s, a[1])
      [] node_name = "review" -> review_agent(s, a[1])
      [] node_name = "editor" -> editor_agent(s, a[1])
      [] node_name = "should_revise" -> Returned("route" :> should_revise(s), 0)
      [] node_name = "increment_revision" ->
           Returned("revision_count" :> increment_revision_node(s).revision_count, 0)

FailedAttempts == {i \in 1..Len(gw.attempts) : gw.attempts[i] = "request_exception"}

\* the gateway call has ended with a connection error
ConnectionFailed == gw.pc = "done" /\ gw.result.kind = "conn_error"

\* C27 (retry bound): one generate call posts the request at most 3 times;
\* every attempt but the last one made has failed; the waits so far are 1s
\* after the first failure and 2s after the second, none after the third;
\* and once the connection check has passed, generate raises only after the
\* third failed attempt.
C27_RetryBound ==
    /\ gw.generate_calls <= 1
    /\ Len(gw.attempts) <= 3
    /\ \A i \in 1..(Len(gw.attempts) - 1) : gw.attempts[i] = "request_exception"
    /\ Len(gw.sleeps) = (IF Cardinality(FailedAttempts) = 3 THEN 2
                         ELSE Cardinality(FailedAttempts))
    /\ \A i \in 1..Len(gw.sleeps) : gw.sleeps[i] = (IF i = 1 THEN 1 ELSE 2)
    /\ (Cardinality(FailedAttempts) = 3 => ConnectionFailed)
    /\ ((ConnectionFailed /\ gw.attempts # <<>>) =>
            /\ Cardinality(FailedAttempts) = 3
            /\ gw.sleeps = <<1, 2>>)

C27_Witness ==
    /\ ConnectionFailed
    /\ gw.attempts = <<"request_exception", "request_exception", "request_exception">>
    /\ gw.sleeps = <<1, 2>>
    /\ pc = "returned"
    /\ last_call.node = "editor"

\* generate_structured received a response that does not parse
UnparseableReceived ==
    /\ gw.structured
    /\ gw.pc = "done"
    /\ gw.attempts # <<>>
    /\ gw.attempts[Len(gw.attempts)] = "ok"
    /\ ~gw.text.valid

\* C28 (no retry of a parse failure): one generate_structured call makes one
\* generate call; a response that was received and does not parse, fenced or
\* not, ends the call with a parse error, with no request after the one that
\* was answered; and the calling stage returns its empty result without
\* raising.
C28_ParseFailureNotRetried ==
    /\ gw.generate_calls = (IF gw.pc = "idle" THEN 0 ELSE 1)
    /\ Cardinality({i \in 1..Len(gw.attempts) : gw.attempts[i] = "ok"}) <= 1
    /\ (gw.pc = "done" /\ gw.result.kind = "parse_error") => UnparseableReceived
    /\ UnparseableReceived =>
          /\ gw.result.kind = "parse_error"
          /\ (pc = "returned" =>
                /\ ~last_call.raised
                /\ last_call.caught
                /\ last_call.calls = 1
                /\ last_call.patch = ZeroPatch(last_call.node))

C28_Witness ==
    /\ UnparseableReceived
    /\ gw.text.fenced
    /\ gw.attempts = <<"request_exception", "ok">>
    /\ pc = "returned"
    /\ last_call.node = "review"
    /\ last_call.patch = ZeroPatch("review")

\* C29 (connectivity errors), as claimed: when the gateway call has failed
\* for want of a connection, the gateway has retried with backoff before
\* failing, and the calling stage returns its empty result without raising.
C29_UnreachableIsRetried ==
    ConnectionFailed =>
        /\ Len(gw.attempts) = 3
        /\ gw.sleeps = <<1, 2>>
        /\ (pc = "returned" =>
              /\ ~last_call.raised
              /\ last_call.patch = ZeroPatch(last_call.node))

====
